---------------------------- MODULE Spec2Model ----------------------------
(***************************************************************************)
(* Geany document core (src/src/document.c): the document registry, the   *)
(* load / save / close life cycle and the undo / redo ledger, as a state   *)
(* machine.  Every C function of document.c that changes state is an       *)
(* operator from a world record w (documents array, notebook pages, disk,  *)
(* clock, events of the running handler) to the world it leaves; every     *)
(* action of Next applies one handler as a whole.                          *)
(***************************************************************************)
EXTENDS Integers, Sequences, FiniteSets, TLC

(* ------------------------------ bounds -------------------------------- *)
MaxDocs == 2      \* slots documents_array may grow to
MaxLedger == 3    \* user edits / metadata changes recorded per document
MaxTime == 1      \* last value of the wall clock
LedgerSteps == 6  \* calls followed on the one document of SpecLedger
MaxText == 3      \* characters of the text a find or replace call starts on
MaxCalls == 1     \* find and replace calls followed on one widget
MaxChunks == 3    \* pieces a file on the disk is made of, byte by byte
MaxLines == 4     \* lines of a text whose indentation is detected
MaxSteps == 3     \* handler calls and outside events in a behaviour

(* ----------------------------- vocabulary ----------------------------- *)
NULL == "NULL"
FREED == "FREED"                  \* a pointer whose target was g_free()d
Names == {"a", "l"}               \* file names; "l" is a symbolic link to "a"
Charsets == {"UTF-8", "ISO-8859-1"}
NONE_CHARSET == "None"            \* encodings[GEANY_ENCODING_NONE].charset
Texts == {"", " ", "e", "E"}      \* buffer texts (UTF-8): empty, one blank,
                                  \* e-acute, euro sign
Bodies == {"", " ", "e8", "e1", "E8", "bin", "nul"}
                                  \* bytes after the BOM: empty, 0x20, e-acute
                                  \* in UTF-8, e-acute in Latin-1, euro in
                                  \* UTF-8, undetectable bytes, 0x20 00 20
NoFile == [exists |-> FALSE, bom |-> FALSE, body |-> "", mtime |-> 0]
UNDO_SCINTILLA == "UNDO_SCINTILLA"
UNDO_BOM == "UNDO_BOM"
UNDO_ENCODING == "UNDO_ENCODING"

\* documents, notebook, disk and now are the program's state and its
\* surroundings; steps counts the calls made, last records the latest call,
\* and applied keeps, per slot, the changes in effect in the order they were
\* made (a history kept beside the program, which never reads it).  search is
\* the editing widget a find or replace call works on, character by character,
\* with the position the call has reached.  batch holds delay_colourise and
\* doc_indexes, the two statics of document_delay_colourise() and
\* document_colourise_new().
VARIABLES documents, notebook, disk, now, steps, last, applied, search, batch

vars == <<documents, notebook, disk, now, steps, last, applied, search, batch>>

\* lines 93 and 2478: delay_colourise = FALSE, doc_indexes = NULL (no array)
NoIndexes == [array |-> FALSE, data |-> {}]
NoBatch == [delay_colourise |-> FALSE, doc_indexes |-> NoIndexes]

(* ------------------- glib / encodings.c collaborators ----------------- *)
\* realpath(): both names resolve to "a", and only while the file exists.
tm_get_real_path(fs, name) ==
    IF name # NULL /\ fs.exists THEN "a" ELSE NULL

encodings_is_unicode_charset(enc) ==
    enc \in {"UTF-8", "UTF-16LE", "UTF-16BE", "UTF-32LE", "UTF-32BE"}

\* g_utf8_validate() over the bytes up to the first NUL.
g_utf8_validate(body) == body \in {"", " ", "e8", "E8", "nul", "  x"}

\* the UTF-8 text a valid body holds (strlen() cuts at the first NUL).
Utf8Text(body) ==
    CASE body = "e8" -> "e"
      [] body = "E8" -> "E"
      [] body \in {" ", "nul"} -> " "
      [] body = "  x" -> "  x"
      [] OTHER -> ""

\* encodings_convert_to_utf8(): guess the charset of bytes that are not UTF-8.
encodings_convert_to_utf8(body) ==
    IF body = "e1" THEN [ok |-> TRUE, text |-> "e", enc |-> "ISO-8859-1"]
    ELSE [ok |-> FALSE, text |-> "", enc |-> NULL]

\* g_convert(text, to: enc, from: "UTF-8"): the euro sign is not Latin-1.
g_convert(text, enc) ==
    IF enc = "UTF-8"
    THEN [ok |-> TRUE,
          body |-> CASE text = "e" -> "e8" [] text = "E" -> "E8" [] OTHER -> text]
    ELSE IF text = "E" THEN [ok |-> FALSE, body |-> ""]
    ELSE [ok |-> TRUE, body |-> IF text = "e" THEN "e1" ELSE text]

(* ------------------------- Scintilla buffer --------------------------- *)
\* text, the native undo and redo histories (texts to go back / forward to),
\* the save point (an undo depth, -1 when unreachable) and the read-only flag.
NoBuf == [text |-> "", undo |-> <<>>, redo |-> <<>>, save |-> 0, ro |-> FALSE]

sci_is_modified(b) == b.save # Len(b.undo)

\* an insertion or deletion with undo collection on; refused when read-only.
SciModify(b, t) ==
    IF b.ro \/ t = b.text THEN b
    ELSE [b EXCEPT !.text = t, !.undo = Append(b.undo, b.text), !.redo = <<>>,
                   !.save = IF b.save > Len(b.undo) THEN -1 ELSE b.save]

sci_undo(b) ==
    IF b.undo = <<>> THEN b
    ELSE [b EXCEPT !.text = b.undo[Len(b.undo)],
                   !.undo = SubSeq(b.undo, 1, Len(b.undo) - 1),
                   !.redo = Append(b.redo, b.text)]

sci_redo(b) ==
    IF b.redo = <<>> THEN b
    ELSE [b EXCEPT !.text = b.redo[Len(b.redo)],
                   !.redo = SubSeq(b.redo, 1, Len(b.redo) - 1),
                   !.undo = Append(b.undo, b.text)]

sci_set_savepoint(b) == [b EXCEPT !.save = Len(b.undo)]

sci_empty_undo_buffer(b) == [b EXCEPT !.undo = <<>>, !.redo = <<>>, !.save = 0]

\* sci_set_text() while undo collection is off: nothing is recorded.
sci_set_text(b, t) == [b EXCEPT !.text = t]

(* --------------------------- the registry ----------------------------- *)
\* a slot as g_new0() leaves it.  Slots and notebook pages are numbered from 1
\* here (the C code numbers them from 0); sci is 0 for a NULL handle and the
\* widget's id otherwise.
ZeroDoc ==
    [is_valid |-> FALSE, sci |-> 0, buf |-> NoBuf, file_name |-> NULL,
     real_path |-> NULL, file_type |-> NULL, encoding |-> NULL, has_bom |-> FALSE,
     saved_encoding |-> [encoding |-> NULL, has_bom |-> FALSE],
     changed |-> FALSE, readonly |-> FALSE, mtime |-> 0, use_tabs |-> FALSE,
     undo_actions |-> <<>>, redo_actions |-> <<>>]

Slots(w) == 1..Len(w.docs)

Ret(w, ret, why) == [w |-> w, ret |-> ret, why |-> why]

Emit(w, kind, i, detail) == [w EXCEPT !.ev = @ \cup {<<kind, i, detail>>}]

\* the lowest of the slots S, 0 for NULL: the for loops of the finders.
FirstSlot(S) ==
    IF S = {} THEN 0 ELSE CHOOSE i \in S : \A j \in S : i <= j

document_find_by_real_path(w, realname) ==
    IF realname = NULL THEN 0
    ELSE LET Hit(i) == /\ w.docs[i].is_valid
                       /\ w.docs[i].real_path # NULL
                       /\ w.docs[i].real_path = realname
         IN FirstSlot({i \in Slots(w) : Hit(i)})

get_real_path_from_utf8(w, utf8_filename) == tm_get_real_path(w.fs, utf8_filename)

document_find_by_filename(w, utf8_filename) ==
    IF utf8_filename = NULL THEN 0
    ELSE LET Hit(i) == /\ w.docs[i].is_valid
                       /\ w.docs[i].file_name # NULL
                       /\ w.docs[i].file_name = utf8_filename
             byName == FirstSlot({i \in Slots(w) : Hit(i)})
         IN IF byName # 0 THEN byName
            ELSE document_find_by_real_path(w,
                     get_real_path_from_utf8(w, utf8_filename))

document_find_by_sci(w, sci) ==
    IF sci = 0 THEN 0
    ELSE LET Hit(i) == w.docs[i].is_valid /\ w.docs[i].sci = sci
         IN FirstSlot({i \in Slots(w) : Hit(i)})

\* gtk_notebook_get_nth_page(): the widget on a page, 0 when there is none.
NthPage(w, page_num) ==
    IF page_num \in 1..Len(w.nb) THEN w.nb[page_num] ELSE 0

document_get_from_page(w, page_num) ==
    IF page_num > Len(w.docs) THEN 0
    ELSE document_find_by_sci(w, NthPage(w, page_num))

document_set_text_changed(w, i, changed) ==
    IF i = 0 THEN w ELSE [w EXCEPT !.docs[i].changed = changed]

UndoAddClearsRedo(w, i, type, data) ==
    IF i = 0 THEN w
    ELSE document_set_text_changed(
             [w EXCEPT !.docs[i].undo_actions =
                           Append(@, [type |-> type, data |-> data]),
                       !.docs[i].redo_actions = <<>>],
             i, TRUE)

document_undo_add(w, i, type, data) ==
    IF i = 0 THEN w
    ELSE document_set_text_changed(
             [w EXCEPT !.docs[i].undo_actions =
                           Append(@, [type |-> type, data |-> data])],
             i, TRUE)

RedoAddForgets(w, i, type, data) ==
    IF i = 0 THEN w ELSE document_set_text_changed(w, i, TRUE)

document_redo_add(w, i, type, data) ==
    IF i = 0 THEN w
    ELSE document_set_text_changed(
             [w EXCEPT !.docs[i].redo_actions =
                           Append(@, [type |-> type, data |-> data])],
             i, TRUE)

\* the type a document's name gives it: the named files of this model are C
\* sources; without a name it is filetypes[GEANY_FILETYPES_NONE].
filetypes_detect_from_file(d) == IF d.file_name # NULL THEN "C" ELSE "None"

\* lines 2129-2146: a NULL type changes nothing.
document_set_filetype(w, i, type) ==
    IF type = NULL \/ i = 0 THEN w ELSE [w EXCEPT !.docs[i].file_type = type]

\* the ledger's entries stay where they are
UndoClearKeepsLedger(w, i, quitting) ==
    IF ~quitting /\ w.docs[i].sci # 0
    THEN document_set_text_changed(w, i, FALSE)
    ELSE w

document_undo_clear(w, i, quitting) ==
    LET w1 == [w EXCEPT !.docs[i].undo_actions = <<>>,
                        !.docs[i].redo_actions = <<>>]
    IN IF ~quitting /\ w1.docs[i].sci # 0
       THEN document_set_text_changed(w1, i, FALSE)
       ELSE w1

store_saved_encoding(w, i) ==
    [w EXCEPT !.docs[i].saved_encoding =
                  [encoding |-> w.docs[i].encoding, has_bom |-> w.docs[i].has_bom]]

SetEncodingAndSnapshot(w, i, new_encoding) ==
    IF i = 0 \/ new_encoding = NULL \/ new_encoding = w.docs[i].encoding THEN w
    ELSE store_saved_encoding([w EXCEPT !.docs[i].encoding = new_encoding], i)

document_set_encoding(w, i, new_encoding) ==
    IF i = 0 \/ new_encoding = NULL \/ new_encoding = w.docs[i].encoding THEN w
    ELSE [w EXCEPT !.docs[i].encoding = new_encoding]

KeepChangedState(w, i) == w

\* the changed flag follows the buffer alone
ChangedFromBufferOnly(w, i) ==
    document_set_text_changed(w, i, sci_is_modified(w.docs[i].buf))

update_changed_state(w, i) ==
    LET d == w.docs[i]
    IN document_set_text_changed(w, i,
           \/ sci_is_modified(d.buf)
           \/ d.has_bom # d.saved_encoding.has_bom
           \/ d.encoding # d.saved_encoding.encoding)

(* ------------- editor.c: the buffer's notifications ------------------- *)
\* on_editor_notification(): SCN_MODIFIED with SC_STARTACTION records a
\* UNDO_SCINTILLA entry, SCN_SAVEPOINTLEFT / SCN_SAVEPOINTREACHED set the
\* changed flag.  BufferEdit is a change of the text made while the handler
\* is connected and undo collection is on.
BufferEdit(w, i, t) ==
    LET b == w.docs[i].buf
        b1 == SciModify(b, t)
    IN IF b1 = b THEN w
       ELSE LET w1 == [w EXCEPT !.docs[i].buf = b1]
                w2 == document_undo_add(w1, i, UNDO_SCINTILLA, NULL)
            IN IF ~sci_is_modified(b) /\ sci_is_modified(b1)
               THEN document_set_text_changed(w2, i, TRUE)
               ELSE w2

\* Scintilla's undo / redo tell the handler when the save point is reached or left.
NotifySavePoint(w, i, before) ==
    LET after == sci_is_modified(w.docs[i].buf)
    IN IF before = after THEN w ELSE document_set_text_changed(w, i, after)

\* editor_strip_trailing_spaces(): the pre-save normalisation, one undoable edit.
StripText(t) == IF t = " " THEN "" ELSE t

editor_strip_trailing_spaces(w, i) == BufferEdit(w, i, StripText(w.docs[i].buf.text))

(* --------------------------- the save path ---------------------------- *)
\* Inputs of a handler, the record in:
\*   strip     file_prefs.strip_trailing_spaces
\*   io        what the file system does to a write: "ok", "open" (g_fopen()
\*             fails) or "partial" (fwrite() writes less than asked)
\*   quitting  main_status.quitting
\*   ans       the answer to the unsaved-changes dialog, per slot
\*   saveas    the name picked in the Save As dialog, NULL when it is cancelled
\*   reload, resave   the answers to the two questions of the disk check
\*   dct       file_prefs.disk_check_timeout # 0
\*   readok    g_file_get_contents() succeeds
\*   defenc    encodings[file_prefs.default_new_encoding].charset
\*   openenc   encodings[file_prefs.default_open_encoding].charset, or NULL
GINT_TO_POINTER(b) == IF b THEN "1" ELSE "0"

GPOINTER_TO_INT(p) == p = "1"

\* the bytes document_save_file() hands to write_data_to_disk(): a UTF-8 BOM
\* in front of the text when the document has one and its charset is
\* Unicode, the whole converted to the charset unless that is UTF-8 or None.
SaveData(d) ==
    LET bom == d.has_bom /\ encodings_is_unicode_charset(d.encoding)
        conv == /\ d.encoding # NULL
                /\ d.encoding # "UTF-8"
                /\ d.encoding # NONE_CHARSET
        c == IF conv THEN g_convert(d.buf.text, d.encoding)
             ELSE g_convert(d.buf.text, "UTF-8")
    IN [ok |-> c.ok, bom |-> bom, body |-> c.body]

\* fopen(name, "wb") truncates the file it opens; a short write leaves a
\* prefix of the data (here the empty one).
write_data_to_disk(w, i, data, io) ==
    IF io = "open" THEN Ret(w, FALSE, "io")
    ELSE LET file == [exists |-> TRUE, mtime |-> w.now,
                      bom |-> IF io = "ok" THEN data.bom ELSE FALSE,
                      body |-> IF io = "ok" THEN data.body ELSE ""]
             w1 == Emit([w EXCEPT !.fs = file], "write", i, io)
         IN Ret(w1, io = "ok", IF io = "ok" THEN "ok" ELSE "io")

document_update_timestamp(w, i) ==
    IF w.docs[i].file_name = NULL \/ ~w.fs.exists THEN w
    ELSE [w EXCEPT !.docs[i].mtime = w.fs.mtime]

SaveUnlessWritable(w, i, force) ==
    ~force /\ ~w.docs[i].changed /\ w.docs[i].readonly

\* the early return of document_save_file(), line 1457.
SaveNotNeeded(w, i, force) ==
    ~force /\ (~w.docs[i].changed \/ w.docs[i].readonly)

\* lines 1523-1528: the file is on disk; the real path and the saved encoding
\* follow it.
SetSavedState(w, i) ==
    store_saved_encoding(
        [w EXCEPT !.docs[i].real_path =
                      get_real_path_from_utf8(w, w.docs[i].file_name)],
        i)

\* lines 1531-1554, skipped when quitting: sci_set_savepoint() makes Scintilla
\* send SCN_SAVEPOINTREACHED, which clears the changed flag; the timestamp is
\* read back from the file.
MarkSaved(w, i) ==
    document_update_timestamp(
        document_set_text_changed(
            [w EXCEPT !.docs[i].buf = sci_set_savepoint(@)], i, FALSE),
        i)

\* lines 1511-1564: wr is what write_data_to_disk() returned.
SaveWritten(wr, i, in) ==
    IF ~wr.ret THEN Ret(wr.w, FALSE, "io")
    ELSE Ret(Emit(IF in.quitting THEN SetSavedState(wr.w, i)
                  ELSE MarkSaved(SetSavedState(wr.w, i), i),
                  "saved", i, "ok"),
             TRUE, "ok")

\* lines 1476-1511: the normalised text is converted and written.
SaveNormalised(w, i, in) ==
    IF ~SaveData(w.docs[i]).ok THEN Ret(w, FALSE, "conv")
    ELSE SaveWritten(write_data_to_disk(w, i, SaveData(w.docs[i]), in.io), i, in)

document_save_file(w, i, force, in) ==
    IF i = 0 THEN Ret(w, FALSE, "nodoc")
    ELSE IF SaveNotNeeded(w, i, force) THEN Ret(w, FALSE, "noop")
    ELSE IF w.docs[i].file_name = NULL THEN Ret(w, FALSE, "noname")
    ELSE SaveNormalised(IF in.strip THEN editor_strip_trailing_spaces(w, i) ELSE w,
                        i, in)

\* lines 1319-1331: FILETYPE_ID() of a NULL type is GEANY_FILETYPES_NONE.
DetectOnSaveAs(w, i) ==
    IF w.docs[i].file_type \in {NULL, "None"}
    THEN document_set_filetype(w, i, filetypes_detect_from_file(w.docs[i]))
    ELSE w

document_save_file_as(w, i, utf8_fname, in) ==
    IF i = 0 THEN Ret(w, FALSE, "nodoc")
    ELSE document_save_file(DetectOnSaveAs(IF utf8_fname # NULL
                                           THEN [w EXCEPT !.docs[i].file_name = utf8_fname]
                                           ELSE w,
                                           i),
                            i, TRUE, in)

(* ------------------- dialogs.c: the confirmation dialogs -------------- *)
\* dialogs_show_save_as(): the user cancels or picks a name for the document.
dialogs_show_save_as(w, i, in) ==
    IF in.saveas = NULL THEN Ret(w, FALSE, "cancel")
    ELSE document_save_file_as(w, i, in.saveas, in)

\* dialogs_show_unsaved_file(): save / discard / cancel; on save the dialog saves
\* the document itself and returns whether that worked.
dialogs_show_unsaved_file(w, i, in) ==
    LET w1 == Emit(w, "prompt", i, in.ans[i])
    IN CASE in.ans[i] = "save" ->
              IF w1.docs[i].file_name = NULL
              THEN dialogs_show_save_as(w1, i, in)
              ELSE document_save_file(w1, i, FALSE, in)
         [] in.ans[i] = "discard" -> Ret(w1, TRUE, "discard")
         [] OTHER -> Ret(w1, FALSE, "cancel")

(* ------------------------ create and close ---------------------------- *)
KeepSciOnClose(d) ==
    [d EXCEPT !.is_valid = FALSE, !.file_name = NULL, !.real_path = NULL,
              !.file_type = NULL, !.encoding = NULL, !.has_bom = FALSE,
              !.saved_encoding.encoding = FREED]

\* the teardown of document_remove_page(), lines 543-557: the strings are
\* freed (saved_encoding.encoding is left dangling), the widget is destroyed
\* with its notebook page.
ClosedDoc(d) ==
    [d EXCEPT !.is_valid = FALSE, !.sci = 0, !.buf = NoBuf, !.file_name = NULL,
              !.real_path = NULL, !.file_type = NULL, !.encoding = NULL, !.has_bom = FALSE,
              !.saved_encoding.encoding = FREED]

CloseWithoutAsking(w, i, in) == Ret(w, TRUE, "discard")

\* the dirty check of document_remove_page(), line 531.
ConfirmClose(w, i, in) ==
    IF w.docs[i].changed THEN dialogs_show_unsaved_file(w, i, in)
    ELSE Ret(w, TRUE, "clean")

\* lines 536-559: the page goes, the slot is torn down, the ledger is cleared.
RemoveConfirmed(w, i, page_num, in) ==
    Ret(Emit(document_undo_clear(
                 [w EXCEPT !.nb = SubSeq(@, 1, page_num - 1)
                                  \o SubSeq(@, page_num + 1, Len(@)),
                           !.docs[i] = ClosedDoc(@)],
                 i, in.quitting),
             "detach", i, "closed"),
        TRUE, "closed")

\* lines 531-534: c is what the dirty check returned.
RemoveAnswered(c, i, page_num, in) ==
    IF ~c.ret THEN Ret(c.w, FALSE, c.why)
    ELSE RemoveConfirmed(c.w, i, page_num, in)

\* lines 527-573: i is the document on the page.
RemoveDoc(w, i, page_num, in) ==
    IF i = 0 THEN Ret(w, FALSE, "nopage")
    ELSE RemoveAnswered(ConfirmClose(w, i, in), i, page_num, in)

document_remove_page(w, page_num, in) ==
    RemoveDoc(w, document_get_from_page(w, page_num), page_num, in)

init_doc_struct(d) == ZeroDoc

FirstSlotOrNone(w) == IF Len(w.docs) > 0 THEN 1 ELSE 0

document_get_new_idx(w) ==
    FirstSlot({i \in Slots(w) : w.docs[i].sci = 0})

\* the empty document stays
KeepEmptyDocument(w, in) == w

\* lines 464-470: "remove the empty document and open a new one".
RemoveEmptyDocument(w, in) ==
    LET cur == IF Len(w.nb) = 1 THEN document_get_from_page(w, 1) ELSE 0
    IN IF cur # 0 /\ w.docs[cur].file_name = NULL /\ ~w.docs[cur].changed
       THEN document_remove_page(w, 1, in).w
       ELSE w

PrependSlot(w) ==
    IF document_get_new_idx(w) = 0 THEN [w EXCEPT !.docs = <<ZeroDoc>> \o @] ELSE w

\* lines 472-479: "expand the array, no free places".
ExpandArray(w) ==
    IF document_get_new_idx(w) = 0 THEN [w EXCEPT !.docs = Append(@, ZeroDoc)] ELSE w

NewIdx(w) ==
    IF document_get_new_idx(w) = 0 THEN Len(w.docs) + 1 ELSE document_get_new_idx(w)

\* the slot is valid from the moment it is initialised
ValidFromStart(w, new_idx, utf8_filename) ==
    [w EXCEPT !.docs[new_idx] =
                  [init_doc_struct(@) EXCEPT !.file_name = utf8_filename,
                                             !.is_valid = TRUE]]

\* lines 480-484: the slot's fields are reset and it gets its name.
InitSlot(w, new_idx, utf8_filename) ==
    [w EXCEPT !.docs[new_idx] =
                  [init_doc_struct(@) EXCEPT !.file_name = utf8_filename]]

\* what the registry's lookups and a test of the flag make of slot i
Visible(w, i) ==
    \/ w.docs[i].is_valid
    \/ document_find_by_sci(w, w.docs[i].sci) = i
    \/ document_find_by_filename(w, w.docs[i].file_name) = i
    \/ \E p \in 1..Len(w.nb) : document_get_from_page(w, p) = i

\* a collaborator is called while slot i is being built and looks at it
Callback(w, i, who) ==
    Emit(w, IF Visible(w, i) THEN "exposed" ELSE "hidden", i, who)

\* line 486: the editor widget is created for the document.
AttachSci(w, new_idx) ==
    Callback([w EXCEPT !.docs[new_idx].sci = new_idx], new_idx, "create_new_sci")

\* line 499: the widget becomes the notebook's last page.
notebook_new_tab(w, new_idx) ==
    Callback([w EXCEPT !.nb = Append(@, new_idx)], new_idx, "notebook_new_tab")

\* lines 497-508: the sidebar, the notebook and the toolbar take the document.
RegisterInUi(w, new_idx) ==
    Callback(notebook_new_tab(Callback(w, new_idx, "treeviews_openfiles_add"),
                              new_idx),
             new_idx, "ui_document_buttons_update")

\* line 510: "do this last to prevent UI updating with NULL items".
MarkValid(w, new_idx) == [w EXCEPT !.docs[new_idx].is_valid = TRUE]

\* lines 480-511: the slot is initialised, gets its name and widget and a
\* notebook page, and is made valid last.
SetUpDoc(w, new_idx, utf8_filename) ==
    Ret(Emit(MarkValid(RegisterInUi(AttachSci(InitSlot(w, new_idx, utf8_filename),
                                              new_idx),
                                    new_idx),
                       new_idx),
             "created", new_idx, "slot"),
        new_idx, "created")

\* lines 472-511: w is the registry after the empty document went.
CreateDoc(w, utf8_filename) == SetUpDoc(ExpandArray(w), NewIdx(w), utf8_filename)

document_create(w, utf8_filename, in) ==
    CreateDoc(RemoveEmptyDocument(w, in), utf8_filename)

\* lines 616-647: the text is set with undo collection off, then mtime, the
\* default encoding and its snapshot, and the document is marked unchanged.
SeedNewDoc(w, i, text, in) ==
    document_set_text_changed(
        document_set_filetype(
            store_saved_encoding(
                [w EXCEPT !.docs[i].buf = sci_empty_undo_buffer(sci_set_text(@, text)),
                          !.docs[i].use_tabs = in.editor_prefs.use_tabs,
                          !.docs[i].mtime = w.now,
                          !.docs[i].encoding = in.defenc],
                i),
            i,
            IF w.docs[i].file_name # NULL THEN filetypes_detect_from_file(w.docs[i])
            ELSE NULL),
        i, FALSE)

\* c is what document_create() returned.
NewFileCreated(c, text, in) == Ret(SeedNewDoc(c.w, c.ret, text, in), c.ret, "new")

document_new_file(w, filename, text, in) ==
    NewFileCreated(document_create(w, filename, in), text, in)

(* ---------- indentation: tabs or spaces ------------------------------- *)
TAB == "\t"
EOL == "\n"
SPACE == " "

\* sci_get_char_at(): the character at pos, "" (NUL) past the end of the text.
sci_get_char_at(sci, pos) ==
    IF pos \in 0..(Len(sci.text) - 1) THEN sci.text[pos + 1] ELSE ""

\* sci_get_position_from_line() for every line 0 .. sci_get_line_count() - 1:
\* a line starts at 0 and after every line end.
LinePositions(sci) ==
    {0} \cup {pos + 1 : pos \in {p \in 0..(Len(sci.text) - 1) : sci.text[p + 1] = EOL}}

\* lines 953-966: the lines that start with a tab.
tabs(sci) == Cardinality({pos \in LinePositions(sci) : sci_get_char_at(sci, pos) = TAB})

\* lines 953-966: the lines that start with two spaces.
spaces(sci) ==
    Cardinality({pos \in LinePositions(sci) :
                    /\ sci_get_char_at(sci, pos) = SPACE
                    /\ sci_get_char_at(sci, pos + 1) = SPACE})

\* the default gives way as soon as the other kind is twice as frequent
DetectWithoutBias(sci, editor_prefs) ==
    IF spaces(sci) = 0 /\ tabs(sci) = 0 THEN editor_prefs.use_tabs
    ELSE IF editor_prefs.use_tabs THEN ~(spaces(sci) >= tabs(sci) * 2)
    ELSE tabs(sci) >= spaces(sci) * 2

\* lines 948-977
detect_use_tabs(sci, editor_prefs) ==
    IF spaces(sci) = 0 /\ tabs(sci) = 0 THEN editor_prefs.use_tabs
    ELSE IF editor_prefs.use_tabs THEN ~(spaces(sci) > tabs(sci) * 2)
    ELSE tabs(sci) > spaces(sci) * 2

\* lines 980-996: what editor_set_use_tabs() is called with, and by which arm.
set_indentation(sci, file_type, editor_prefs) ==
    IF file_type = "Make" THEN [use_tabs |-> TRUE, why |-> "make"]
    ELSE IF ~editor_prefs.detect_tab_mode
    THEN [use_tabs |-> editor_prefs.use_tabs, why |-> "default"]
    ELSE [use_tabs |-> detect_use_tabs(sci, editor_prefs), why |-> "detect"]

\* the characters of a buffer text of this model: IndentedText is a line of
\* two blanks and a letter, every other text is what it reads, a blank or a
\* letter, or nothing
IndentedText == "  x"

TextChars(t) ==
    CASE t = "" -> <<>>
      [] t = IndentedText -> <<SPACE, SPACE, "x">>
      [] OTHER -> <<t>>

\* editor_set_use_tabs(): the document's mode is stored and the widget is set up
editor_set_use_tabs(w, i, use_tabs) == [w EXCEPT !.docs[i].use_tabs = use_tabs]

\* the mode is detected anew on a reload as well
DetectOnReloadToo(w, i, reload, in) ==
    editor_set_use_tabs(w, i, set_indentation([text |-> TextChars(w.docs[i].buf.text)],
                                              w.docs[i].file_type, in.editor_prefs).use_tabs)

\* lines 1132-1136: "set indentation settings after setting the filetype".
SetIndentationOnOpen(w, i, reload, in) ==
    IF reload THEN editor_set_use_tabs(w, i, w.docs[i].use_tabs)
    ELSE editor_set_use_tabs(w, i,
             set_indentation([text |-> TextChars(w.docs[i].buf.text)],
                             w.docs[i].file_type, in.editor_prefs).use_tabs)

(* --------------------------- the load path ---------------------------- *)
\* document_delay_colourise(), lines 2482-2497: doc_indexes, the indexes of
\* the documents valid when the batch begins.
document_delay_colourise(w) == {n \in Slots(w) : w.docs[n].is_valid}

\* the index of the lexer's type keyword list, -1 when it has none: the C
\* lexer has one, the lexer of an untyped document has not.
editor_lexer_get_type_keyword_idx(d) == IF d.file_type = "C" THEN 3 ELSE -1

\* lines 2515-2529: every slot, less those of doc_indexes whose type keywords
\* have not changed or whose lexer has none.
doc_set(w, doc_indexes, recolour) ==
    {n \in Slots(w) :
        ~(/\ n \in doc_indexes
          /\ \/ ~recolour
             \/ /\ w.docs[n].sci # 0
                /\ editor_lexer_get_type_keyword_idx(w.docs[n]) = -1)}

\* document_colourise_new(), lines 2503-2544: recolour is what
\* update_type_keywords(NULL, -2) returned.
document_colourise_new(w, doc_indexes, recolour) ==
    [w EXCEPT !.ev = @ \cup {<<"colourise", n, "batch">> :
                                 n \in {m \in doc_set(w, doc_indexes, recolour) :
                                            w.docs[m].is_valid}}]

NoData == [ok |-> FALSE, why |-> "", text |-> "", enc |-> NULL, bom |-> FALSE,
           mtime |-> 0, readonly |-> FALSE]

\* encodings_scan_unicode_bom(): the files of this model carry a UTF-8 BOM or none.
encodings_scan_unicode_bom(file) == IF file.bom THEN "UTF-8" ELSE NULL

\* st.st_size = 0
EmptyFile(file) == ~file.bom /\ file.body = ""

\* strlen(data) # st.st_size: a NUL byte cut the data short.
Truncated(file) == file.body = "nul"

\* handle_forced_encoding() for forced_enc = "UTF-8" (the forced charsets of
\* this model): the data must validate; the BOM is looked for afterwards.
handle_forced_encoding(file, forced_enc) ==
    IF ~g_utf8_validate(file.body) THEN [NoData EXCEPT !.why = "forced"]
    ELSE [NoData EXCEPT !.ok = TRUE, !.text = Utf8Text(file.body),
                        !.bom = (encodings_scan_unicode_bom(file) = "UTF-8"),
                        !.enc = forced_enc]

handle_encoding(file) ==
    IF EmptyFile(file) THEN [NoData EXCEPT !.ok = TRUE, !.enc = "UTF-8"]
    ELSE IF encodings_scan_unicode_bom(file) # NULL
    THEN [NoData EXCEPT !.ok = TRUE, !.enc = encodings_scan_unicode_bom(file),
                        !.bom = TRUE, !.text = Utf8Text(file.body)]
    ELSE IF g_utf8_validate(file.body)
    THEN [NoData EXCEPT !.ok = TRUE, !.enc = "UTF-8", !.text = Utf8Text(file.body)]
    ELSE LET c == encodings_convert_to_utf8(file.body)
         IN IF ~c.ok THEN [NoData EXCEPT !.why = "detect"]
            ELSE [NoData EXCEPT !.ok = TRUE, !.enc = c.enc, !.text = c.text]

\* lines 858-917: fd is the decoded data; the stat result and the "file was
\* truncated, open it read-only" verdict go with it when decoding succeeded.
FileLoaded(fd, file) ==
    IF ~fd.ok THEN fd
    ELSE [fd EXCEPT !.mtime = file.mtime,
                    !.readonly =
                        /\ Truncated(file)
                        /\ ~EmptyFile(file)
                        /\ encodings_scan_unicode_bom(file) \in {"UTF-8", NULL}]

load_text_file(w, utf8_filename, forced_enc, in) ==
    IF utf8_filename = NULL \/ ~w.fs.exists THEN [NoData EXCEPT !.why = "stat"]
    ELSE IF ~in.readok THEN [NoData EXCEPT !.why = "read"]
    ELSE FileLoaded(IF forced_enc # NULL
                    THEN handle_forced_encoding(w.fs, forced_enc)
                    ELSE handle_encoding(w.fs),
                    w.fs)

RECURSIVE document_open_file_full(_, _, _, _, _, _)

document_reload_file(w, i, forced_enc, in) ==
    IF i = 0 THEN Ret(w, 0, "nodoc")
    ELSE document_open_file_full(w, i, NULL, w.docs[i].readonly, forced_enc, in)

check_reload(w, i, in) ==
    IF in.reload
    THEN Ret(document_reload_file(Emit(w, "ask_reload", i, "yes"), i, NULL, in).w,
             TRUE, "reload")
    ELSE Ret(Emit(w, "ask_reload", i, "no"), FALSE, "keep")

\* the disk check that leaves the recorded time to the reload
CheckKeepsRecordedTime(w, i, force, in) ==
    IF ~in.dct \/ i = 0 THEN Ret(w, FALSE, "off")
    ELSE IF w.docs[i].real_path = NULL THEN Ret(w, FALSE, "unsaved")
    ELSE IF ~force /\ in.throttled THEN Ret(w, FALSE, "throttled")
    ELSE IF ~w.fs.exists
    THEN LET w1 == document_set_text_changed(w, i, TRUE)
         IN IF in.resave
            THEN Ret(dialogs_show_save_as(Emit(w1, "ask_resave", i, "yes"), i, in).w,
                     FALSE, "missing")
            ELSE Ret(Emit(w1, "ask_resave", i, "no"), FALSE, "missing")
    ELSE IF w.docs[i].mtime > w.now \/ w.fs.mtime > w.now
    THEN Ret(w, FALSE, "skew")
    ELSE IF w.docs[i].mtime < w.fs.mtime
    THEN Ret(check_reload(w, i, in).w, TRUE, "newer")
    ELSE Ret(w, FALSE, "same")

document_check_disk_status(w, i, force, in) ==
    IF ~in.dct \/ i = 0 THEN Ret(w, FALSE, "off")
    ELSE IF w.docs[i].real_path = NULL THEN Ret(w, FALSE, "unsaved")
    ELSE IF ~force /\ in.throttled THEN Ret(w, FALSE, "throttled")
    ELSE IF ~w.fs.exists
    THEN LET w1 == document_set_text_changed(w, i, TRUE)
         IN IF in.resave
            THEN Ret(dialogs_show_save_as(Emit(w1, "ask_resave", i, "yes"), i, in).w,
                     FALSE, "missing")
            ELSE Ret(Emit(w1, "ask_resave", i, "no"), FALSE, "missing")
    ELSE IF w.docs[i].mtime > w.now \/ w.fs.mtime > w.now
    THEN Ret(w, FALSE, "skew")
    ELSE IF w.docs[i].mtime < w.fs.mtime
    THEN LET r == check_reload(w, i, in)
         IN Ret([r.w EXCEPT !.docs[i].mtime = w.fs.mtime], TRUE, "newer")
    ELSE Ret(w, FALSE, "same")

NeverAlreadyOpen(w, utf8_filename) == 0

AbortAfterClearing(w, doc, why) ==
    Ret(IF doc # 0 THEN [w EXCEPT !.docs[doc].buf = sci_empty_undo_buffer(sci_set_text(@, ""))]
        ELSE [w EXCEPT !.docs = Append(@, ZeroDoc)],
        0, why)

\* "if (! load_text_file(...)) return NULL", lines 1069-1074: nothing was touched.
AbortLoad(w, doc, why) == Ret(w, 0, why)

\* "if file is already open, switch to it and go", line 1050.
AlreadyOpen(w, utf8_filename) == document_find_by_filename(w, utf8_filename)

\* lines 1052-1061: the open document is shown and its file is checked.
SwitchToOpen(w, found, in) ==
    Ret(document_check_disk_status(Emit(w, "found", found, "open"), found, TRUE, in).w,
        found, "existing")

\* lines 1065-1067: the encoding picked in the file-open dialog.
ForcedEncoding(forced_enc, in) ==
    IF in.openenc # NULL /\ forced_enc = NULL THEN in.openenc ELSE forced_enc

\* lines 1079-1100: the buffer and the fields are filled from the file data.
FillDoc(w, i, fd, ro) ==
    store_saved_encoding(
        [w EXCEPT !.docs[i].buf =
                      [sci_set_text(sci_empty_undo_buffer(@), fd.text) EXCEPT !.ro = ro],
                  !.docs[i].mtime = fd.mtime,
                  !.docs[i].encoding = fd.enc,
                  !.docs[i].has_bom = fd.bom,
                  !.docs[i].readonly = ro],
        i)

\* lines 1102-1158: a reload clears the ledger, an open records the real path;
\* either way the document is marked unchanged.
FinishOpen(w, i, reload, in) ==
    Ret(Emit(document_set_text_changed(
                 SetIndentationOnOpen(
                     IF reload
                     THEN document_set_filetype(
                              [document_undo_clear(w, i, in.quitting)
                                   EXCEPT !.docs[i].file_type = NULL],
                              i, w.docs[i].file_type)
                     ELSE document_set_filetype(
                              [w EXCEPT !.docs[i].real_path =
                                            get_real_path_from_utf8(w, w.docs[i].file_name)],
                              i, filetypes_detect_from_file(w.docs[i])),
                     i, reload, in),
                 i, FALSE),
             "loaded", i, IF reload THEN "reload" ELSE "open"),
        i, IF reload THEN "reloaded" ELSE "opened")

\* c carries the document that takes the data: doc on a reload, a new one
\* otherwise.
OpenLoaded(c, fd, reload, readonly, in) ==
    FinishOpen(FillDoc(c.w, c.ret, fd, readonly \/ fd.readonly), c.ret, reload, in)

\* lines 1069-1078: fd is what load_text_file() produced.
OpenData(w, doc, utf8_filename, fd, readonly, in) ==
    IF ~fd.ok THEN AbortLoad(w, doc, fd.why)
    ELSE OpenLoaded(IF doc # 0 THEN Ret(w, doc, "reload")
                    ELSE document_create(w, utf8_filename, in),
                    fd, doc # 0, readonly, in)

\* lines 1049-1069: found is the document that already has the file, if any.
OpenNamed(w, doc, utf8_filename, found, readonly, forced_enc, in) ==
    IF found # 0 THEN SwitchToOpen(w, found, in)
    ELSE OpenData(w, doc, utf8_filename,
                  load_text_file(w, utf8_filename, ForcedEncoding(forced_enc, in), in),
                  readonly, in)

document_open_file_full(w, doc, filename, readonly, forced_enc, in) ==
    IF doc = 0 /\ filename = NULL THEN Ret(w, 0, "invalid")
    ELSE OpenNamed(w, doc,
                   IF doc # 0 THEN w.docs[doc].file_name ELSE filename,
                   IF doc # 0 THEN 0 ELSE AlreadyOpen(w, filename),
                   readonly, forced_enc, in)

RECURSIVE OpenEach(_, _, _, _, _)

\* lines 1218-1221: document_open_file() for every item of the list.
OpenEach(w, filenames, readonly, forced_enc, in) ==
    IF filenames = <<>> THEN w
    ELSE OpenEach(document_open_file_full(w, 0, Head(filenames), readonly,
                                          forced_enc, in).w,
                  Tail(filenames), readonly, forced_enc, in)

\* lines 1211-1223; while the files are opened delay_colourise is set and
\* document_set_filetype() styles nothing (line 2159).
document_open_files(w, filenames, readonly, forced_enc, in, recolour) ==
    Ret(document_colourise_new(OpenEach(w, filenames, readonly, forced_enc, in),
                               document_delay_colourise(w), recolour),
        TRUE, "batch")

\* document_delay_colourise(), lines 2486-2487: g_return_if_fail() leaves the
\* function when delay_colourise is set or doc_indexes is not NULL
BeginNeverRejected(b) == FALSE

BeginRejected(b) == b.delay_colourise # FALSE \/ b.doc_indexes.array

\* lines 2482-2497 on the two statics
DelayBatch(b, w) ==
    IF BeginRejected(b) THEN b
    ELSE [delay_colourise |-> TRUE,
          doc_indexes |-> [array |-> TRUE, data |-> document_delay_colourise(w)]]

\* document_colourise_new(), lines 2511-2512: g_return_if_fail() leaves the
\* function when delay_colourise is not set or doc_indexes is NULL
EndRejected(b) == b.delay_colourise # TRUE \/ ~b.doc_indexes.array

\* lines 2503-2544 on the two statics: the documents are restyled, the flag
\* is cleared and the array freed
ColouriseBatch(b, w, recolour) ==
    IF EndRejected(b) THEN [w |-> w, b |-> b, ret |-> FALSE, why |-> "rejected"]
    ELSE [w |-> document_colourise_new(w, b.doc_indexes.data, recolour),
          b |-> NoBatch, ret |-> TRUE, why |-> "batch"]

\* document_open_files(), lines 1211-1223, called when the statics are b
OpenFilesIn(b, w, filenames, readonly, forced_enc, in, recolour) ==
    ColouriseBatch(DelayBatch(b, w),
                   OpenEach(w, filenames, readonly, forced_enc, in), recolour)

(* --------------------------- close all -------------------------------- *)
RECURSIVE AccountPages(_, _, _)

\* lines 2586-2590: r is the answer of the dialog for page p.
AccountAnswered(r, p, in) ==
    IF ~r.ret THEN Ret(r.w, FALSE, r.why)
    ELSE AccountPages(r.w, p + 1, in)

\* the first loop of document_account_for_unsaved(): one dialog per changed page.
AccountPage(w, i, p, in) ==
    IF i # 0 /\ w.docs[i].changed
    THEN AccountAnswered(dialogs_show_unsaved_file(w, i, in), p, in)
    ELSE AccountPages(w, p + 1, in)

AccountPages(w, p, in) ==
    IF p > Len(w.nb) THEN Ret(w, TRUE, "all")
    ELSE AccountPage(w, document_get_from_page(w, p), p, in)

KeepChanges(r, len) == r

\* lines 2592-2600: "all documents should now be accounted for, so ignore any
\* changes"; len is the array length read before the first loop.
IgnoreChanges(r, len) ==
    IF ~r.ret THEN r
    ELSE Ret([r.w EXCEPT !.docs =
                 [i \in 1..Len(r.w.docs) |->
                     IF i <= len /\ r.w.docs[i].is_valid /\ r.w.docs[i].changed
                     THEN [r.w.docs[i] EXCEPT !.changed = FALSE]
                     ELSE r.w.docs[i]]],
             TRUE, "all")

document_account_for_unsaved(w, in) ==
    IgnoreChanges(AccountPages(w, 1, in), Len(w.docs))

RECURSIVE RemoveFirstPages(_, _)

\* a page that cannot be removed would keep the loop of the C code from ending;
\* n is the number of pages before the call.
PageRemoved(r, n, in) ==
    IF Len(r.w.nb) = n THEN Emit(r.w, "hang", 0, "force_close_all")
    ELSE RemoveFirstPages(r.w, in)

\* while (gtk_notebook_get_n_pages() > 0) document_remove_page(0);
RemoveFirstPages(w, in) ==
    IF Len(w.nb) = 0 THEN w
    ELSE PageRemoved(document_remove_page(w, 1, in), Len(w.nb), in)

force_close_all(w, in) ==
    IF \E i \in Slots(w) : w.docs[i].is_valid /\ w.docs[i].changed
    THEN Emit(w, "assert", 0, "force_close_all")
    ELSE RemoveFirstPages(w, in)

CloseAllUnchecked(w, in) ==
    Ret(force_close_all(document_account_for_unsaved(w, in).w, in), TRUE, "closed")

\* lines 2629-2635: a is what document_account_for_unsaved() returned.
CloseAccounted(a, in) ==
    IF ~a.ret THEN Ret(a.w, FALSE, a.why)
    ELSE Ret(force_close_all(a.w, in), TRUE, "closed")

document_close_all(w, in) == CloseAccounted(document_account_for_unsaved(w, in), in)

(* ------------------------- undo and redo ------------------------------ *)
Top(stack) == stack[Len(stack)]

Pop(stack) == SubSeq(stack, 1, Len(stack) - 1)

document_undo(w, i) ==
    LET d == w.docs[i]
        before == sci_is_modified(d.buf)
    IN IF d.undo_actions = <<>>
       THEN update_changed_state(
                NotifySavePoint([w EXCEPT !.docs[i].buf = sci_undo(@)], i, before), i)
       ELSE
         LET action == Top(d.undo_actions)
             w0 == [w EXCEPT !.docs[i].undo_actions = Pop(@)]
             w1 == CASE action.type = UNDO_SCINTILLA ->
                          NotifySavePoint(
                              [document_redo_add(w0, i, UNDO_SCINTILLA, NULL)
                                  EXCEPT !.docs[i].buf = sci_undo(@)], i, before)
                     [] action.type = UNDO_BOM ->
                          [document_redo_add(w0, i, UNDO_BOM, GINT_TO_POINTER(d.has_bom))
                              EXCEPT !.docs[i].has_bom = GPOINTER_TO_INT(action.data)]
                     [] action.type = UNDO_ENCODING ->
                          document_set_encoding(
                              document_redo_add(w0, i, UNDO_ENCODING, d.encoding),
                              i, action.data)
                     [] OTHER -> w0
         IN update_changed_state(w1, i)

document_redo(w, i) ==
    LET d == w.docs[i]
        before == sci_is_modified(d.buf)
    IN IF d.redo_actions = <<>>
       THEN update_changed_state(
                NotifySavePoint([w EXCEPT !.docs[i].buf = sci_redo(@)], i, before), i)
       ELSE
         LET action == Top(d.redo_actions)
             w0 == [w EXCEPT !.docs[i].redo_actions = Pop(@)]
             w1 == CASE action.type = UNDO_SCINTILLA ->
                          NotifySavePoint(
                              [document_undo_add(w0, i, UNDO_SCINTILLA, NULL)
                                  EXCEPT !.docs[i].buf = sci_redo(@)], i, before)
                     [] action.type = UNDO_BOM ->
                          [document_undo_add(w0, i, UNDO_BOM, GINT_TO_POINTER(d.has_bom))
                              EXCEPT !.docs[i].has_bom = GPOINTER_TO_INT(action.data)]
                     [] action.type = UNDO_ENCODING ->
                          document_set_encoding(
                              document_undo_add(w0, i, UNDO_ENCODING, d.encoding),
                              i, action.data)
                     [] OTHER -> w0
         IN update_changed_state(w1, i)

(* ---------- Scintilla: the text of the widget and its searches -------- *)
\* The widget s holds its text as a sequence of characters, the selection
\* [ss, se) in positions counted from 0 (ss = se: only a caret) and whether it
\* refuses changes (ro).  Searches are literal, or one of three regular
\* expressions when SCFIND_REGEXP is given: a* (a run of "a", possibly
\* empty), ^ (start of a line) and $ (end of a line).
SCFIND_REGEXP == "SCFIND_REGEXP"
SCFIND_NONE == "0"
AStar == <<"a", "*">>
LineStart == <<"^">>
LineEnd == <<"$">>

Sub(t, pos, n) == SubSeq(t, pos + 1, pos + n)
Splice(t, from, to, by) == SubSeq(t, 1, from) \o by \o SubSeq(t, to + 1, Len(t))

\* the characters equal to c that follow position pos, up to position lim
RunLen(t, c, pos, lim) ==
    CHOOSE n \in 0..(lim - pos) :
        /\ \A k \in 1..n : t[pos + k] = c
        /\ n = lim - pos \/ t[pos + n + 1] # c

\* the length of the match of text at position pos that ends by lim; -1: none
MatchLen(t, text, flags, pos, lim) ==
    IF flags = SCFIND_REGEXP /\ text = AStar THEN RunLen(t, "a", pos, lim)
    ELSE IF flags = SCFIND_REGEXP /\ text = LineEnd
    THEN IF pos = Len(t) \/ t[pos + 1] = EOL THEN 0 ELSE -1
    ELSE IF flags = SCFIND_REGEXP /\ text = LineStart
    THEN IF pos = 0 \/ t[pos] = EOL THEN 0 ELSE -1
    ELSE IF pos + Len(text) <= lim /\ Sub(t, pos, Len(text)) = text
    THEN Len(text) ELSE -1

\* the positions of lo..hi where text matches without passing hi
Hits(t, text, flags, lo, hi) ==
    {p \in lo..hi : p <= Len(t) /\ MatchLen(t, text, flags, p, hi) >= 0}

HitAt(t, text, flags, pos, lim) ==
    [pos |-> pos,
     chrgText |-> [cpMin |-> pos,
                   cpMax |-> pos + MatchLen(t, text, flags, pos, lim)]]

NoHit == [pos |-> -1, chrgText |-> [cpMin |-> -1, cpMax |-> -1]]

FirstOf(S) == CHOOSE p \in S : \A q \in S : p <= q
LastOf(S) == CHOOSE p \in S : \A q \in S : q <= p

SearchUp(t, text, flags, hits, lim) ==
    IF hits = {} THEN NoHit ELSE HitAt(t, text, flags, FirstOf(hits), lim)

SearchDown(t, text, flags, hits, lim) ==
    IF hits = {} THEN NoHit ELSE HitAt(t, text, flags, LastOf(hits), lim)

\* a position given to Scintilla is brought into the text
Clamp(t, pos) == IF pos > Len(t) THEN Len(t) ELSE IF pos < 0 THEN 0 ELSE pos

FindInRange(t, text, flags, cpMin, cpMax) ==
    IF cpMin <= cpMax
    THEN SearchUp(t, text, flags, Hits(t, text, flags, cpMin, cpMax), cpMax)
    ELSE SearchDown(t, text, flags, Hits(t, text, flags, cpMax, cpMin), cpMin)

\* SCI_FINDTEXT: the first match lying in [cpMin, cpMax]; when cpMin > cpMax
\* the search runs towards the start and gives the last match lying in
\* [cpMax, cpMin]
sci_find_text(s, flags, ttf) ==
    FindInRange(s.text, ttf.lpstrText, flags,
                Clamp(s.text, ttf.chrg.cpMin), Clamp(s.text, ttf.chrg.cpMax))

TextToFind(cpMin, cpMax, text) ==
    [chrg |-> [cpMin |-> cpMin, cpMax |-> cpMax], lpstrText |-> text]

sci_goto_pos(s, pos) == [s EXCEPT !.ss = pos, !.se = pos]
sci_set_current_position(s, pos) == [s EXCEPT !.ss = pos, !.se = pos]

\* a successful search selects its match; a failed one leaves the selection
Selected(s, hit) ==
    IF hit.pos = -1 THEN [s |-> s, pos |-> -1]
    ELSE [s |-> [s EXCEPT !.ss = hit.chrgText.cpMin, !.se = hit.chrgText.cpMax],
          pos |-> hit.pos]

\* SCI_SEARCHANCHOR puts the anchor of the search at the start of the
\* selection; SCI_SEARCHNEXT searches from it to the end of the text,
\* SCI_SEARCHPREV from it to the start
sci_search_next(s, flags, text) ==
    Selected(s, sci_find_text(s, flags, TextToFind(s.ss, Len(s.text), text)))

sci_search_prev(s, flags, text) ==
    Selected(s, sci_find_text(s, flags, TextToFind(s.ss, 0, text)))

\* SCI_REPLACETARGET: [from, to) becomes by, unless the widget is read-only;
\* the length of the replacement is returned either way
sci_target_replace(s, from, to, by) ==
    IF s.ro THEN s ELSE [s EXCEPT !.text = Splice(s.text, from, to, by)]

(* ---------- document.c: find and replace ------------------------------ *)
\* The answers a find call may need: whether search_prefs.suppress_dialogs is
\* set, and what the user says to "Wrap search and find again?".
FindAnswers ==
    {[suppress_dialogs |-> TRUE, wrap |-> FALSE],
     [suppress_dialogs |-> FALSE, wrap |-> TRUE],
     [suppress_dialogs |-> FALSE, wrap |-> FALSE]}

Backwards(flags, search_backwards) ==
    search_backwards /\ flags # SCFIND_REGEXP

\* the result of a find call: the widget it leaves, the position returned,
\* the wrap questions put to the user and the calls of document_find_text made
Found(s, ret, asked, calls) ==
    [s |-> s, ret |-> ret, asked |-> asked, calls |-> calls]

\* document_find_text(), lines 1643-1650: skip past the selection
SkipSelection(s, backwards) ==
    IF s.se - s.ss > 0
    THEN sci_goto_pos(s, IF backwards THEN s.ss ELSE s.se)
    ELSE s

\* lines 1652-1656: search from the anchor
SearchFrom(s, flags, text, backwards) ==
    IF backwards THEN sci_search_prev(s, flags, text)
    ELSE sci_search_next(s, flags, text)

\* the wrapped search has returned r, and a miss leaves the caret at the edge
WrappedStaysAtEdge(r, selection_start, asked) ==
    Found(r.s, r.ret, r.asked + asked, r.calls + 1)

\* lines 1689-1694: the wrapped search has returned r; a miss puts the caret
\* back where the selection started
Wrapped(r, selection_start, asked) ==
    Found(IF r.ret = -1 THEN sci_set_current_position(r.s, selection_start)
          ELSE r.s,
          r.ret, r.asked + asked, r.calls + 1)

RECURSIVE document_find_text(_, _, _, _, _)

\* lines 1667-1697: the search missed, leaving the widget s1
Missed(s1, text, flags, backwards, in, selection_start, selection_end) ==
    IF \/ selection_end = 0 /\ ~backwards
       \/ selection_end = Len(s1.text) /\ backwards
    THEN Found(s1, -1, 0, 1)
    ELSE IF in.suppress_dialogs
    THEN Wrapped(document_find_text(
                     sci_set_current_position(
                         s1, IF backwards THEN Len(s1.text) ELSE 0),
                     text, flags, backwards, in),
                 selection_start, 0)
    ELSE IF in.wrap
    THEN Wrapped(document_find_text(
                     sci_set_current_position(
                         s1, IF backwards THEN Len(s1.text) ELSE 0),
                     text, flags, backwards, in),
                 selection_start, 1)
    ELSE Found(s1, -1, 1, 1)

\* lines 1658-1697: the search has returned r
Searched(r, text, flags, backwards, in, selection_start, selection_end) ==
    IF r.pos # -1 THEN Found(r.s, r.pos, 0, 1)
    ELSE Missed(r.s, text, flags, backwards, in, selection_start, selection_end)

FindText(s, text, flags, backwards, in) ==
    Searched(SearchFrom(SkipSelection(s, backwards), flags, text, backwards),
             text, flags, backwards, in, s.ss, s.se)

document_find_text(s, text, flags, search_backwards, in) ==
    IF text = <<>> THEN Found(s, -1, 0, 1)
    ELSE FindText(s, text, flags, Backwards(flags, search_backwards), in)

\* document_search_bar_find(), lines 1591-1596: the search from the start of
\* the text ends at the anchor plus the length of the pattern
WrapToAnchor(start_pos, text) == start_pos

WrapEnd(start_pos, text) == start_pos + Len(text)

\* lines 1580-1581: the anchor of the search of the toolbar
BarAnchor(s, inc) == IF inc THEN s.ss ELSE s.se

\* lines 1598-1626: the match is selected, or the caret is put at the anchor
\* after a beep (and a message in the status bar unless searching as typed)
BarFound(s, hit, start_pos, inc, wrapped) ==
    IF hit.pos # -1
    THEN [s |-> [s EXCEPT !.ss = hit.chrgText.cpMin, !.se = hit.chrgText.cpMax],
          ret |-> TRUE, pos |-> hit.pos, wrapped |-> wrapped, ev |-> {}]
    ELSE [s |-> sci_goto_pos(s, start_pos), ret |-> FALSE, pos |-> -1,
          wrapped |-> wrapped,
          ev |-> {<<"beep", 0, "">>}
                 \cup (IF inc THEN {} ELSE {<<"statusbar", 0, "not found">>})]

\* lines 1583-1596: from the anchor to the end, then from the start
BarSearch(s, text, flags, start_pos, inc, first) ==
    IF first.pos # -1 THEN BarFound(s, first, start_pos, inc, FALSE)
    ELSE BarFound(s, sci_find_text(s, flags,
                                   TextToFind(0, WrapEnd(start_pos, text), text)),
                  start_pos, inc, TRUE)

\* document_search_bar_find(), lines 1571-1627
document_search_bar_find(s, text, flags, inc) ==
    IF text = <<>>
    THEN [s |-> s, ret |-> TRUE, pos |-> -1, wrapped |-> FALSE, ev |-> {}]
    ELSE BarSearch(s, text, flags, BarAnchor(s, inc), inc,
                   sci_find_text(s, flags,
                                 TextToFind(BarAnchor(s, inc), Len(s.text), text)))

\* document_replace_text(), lines 1737-1750: the find has returned r
ReplaceFound(r, replace_text, selection_start) ==
    IF r.ret # selection_start THEN [s |-> r.s, ret |-> -1]
    ELSE IF r.ret # -1
    THEN [s |-> [sci_target_replace(r.s, r.s.ss, r.s.se, replace_text)
                    EXCEPT !.ss = r.ret, !.se = r.ret + Len(replace_text)],
          ret |-> r.ret]
    ELSE [s |-> r.s, ret |-> r.ret]

ReplaceText(s, find_text, replace_text, flags, backwards, in) ==
    IF s.se = s.ss
    THEN [s |-> document_find_text(s, find_text, flags, backwards, in).s,
          ret |-> -1]
    ELSE ReplaceFound(
             document_find_text(
                 sci_goto_pos(s, IF backwards THEN s.se ELSE s.ss),
                 find_text, flags, backwards, in),
             replace_text, s.ss)

document_replace_text(s, find_text, replace_text, flags, search_backwards, in) ==
    IF find_text = <<>> THEN [s |-> s, ret |-> -1]
    ELSE ReplaceText(s, find_text, replace_text, flags,
                     Backwards(flags, search_backwards), in)

\* SCI_POSITIONAFTER: the position after pos, or the end of the text
sci_position_after(s, pos) ==
    IF pos < Len(s.text) THEN pos + 1 ELSE Len(s.text)

\* document_replace_range(), its locals while the loop runs
NoLoop ==
    [ttf |-> TextToFind(0, 0, <<>>), replace_text |-> <<>>,
     flags |-> SCFIND_NONE, end |-> 0, count |-> 0,
     scroll_to_match |-> FALSE, new_range_end |-> -1, undo |-> 0]

\* the loop is entered with the whole text for its range
EnterWholeText(s, find_text, replace_text, flags, start, end, scroll_to_match) ==
    [ttf |-> TextToFind(0, Len(s.text), find_text), replace_text |-> replace_text,
     flags |-> flags, end |-> Len(s.text), count |-> 0,
     scroll_to_match |-> scroll_to_match, new_range_end |-> -1, undo |-> 1]

\* lines 1807-1813: sci_start_undo_action(), and the loop is entered
EnterLoop(s, find_text, replace_text, flags, start, end, scroll_to_match) ==
    [ttf |-> TextToFind(start, end, find_text), replace_text |-> replace_text,
     flags |-> flags, end |-> end, count |-> 0,
     scroll_to_match |-> scroll_to_match, new_range_end |-> -1, undo |-> 1]

\* lines 1855-1867: the loop is left, sci_end_undo_action()
LeaveLoop(s, l) ==
    [s |-> IF l.count > 0 /\ l.scroll_to_match
           THEN sci_goto_pos(s, l.ttf.chrg.cpMin) ELSE s,
     l |-> [l EXCEPT !.new_range_end = IF l.count > 0 THEN l.end ELSE -1,
                     !.undo = @ - 1],
     exit |-> TRUE]

\* lines 1834-1840: the character after a zero-length target is a line end
MovePastEOL(s, target_end, find_len) ==
    IF find_len <= 0 /\ target_end < Len(s.text) /\ s.text[target_end + 1] = EOL
    THEN 1 ELSE 0

\* the next search starts right after the replaced text, whatever its length
NextStartStays(s, start, find_len) == start

\* lines 1847-1853: the next search starts after the replaced text
NextStart(s, start, find_len) ==
    IF find_len = 0 THEN sci_position_after(s, start) ELSE start

\* the target has been replaced, and the end of the range stays where it was
AdvanceKeepsEnd(s, l, search_pos, find_len, replace_len, movepastEOL) ==
    IF search_pos = l.end
    THEN LeaveLoop(s, [l EXCEPT !.count = @ + 1])
    ELSE [s |-> s,
          l |-> [l EXCEPT !.count = @ + 1,
                          !.ttf.chrg.cpMin =
                              NextStart(s, search_pos + replace_len + movepastEOL,
                                        find_len)],
          exit |-> FALSE]

\* lines 1841-1853: the target has been replaced, leaving the widget s
Advance(s, l, search_pos, find_len, replace_len, movepastEOL) ==
    IF search_pos = l.end
    THEN LeaveLoop(s, [l EXCEPT !.count = @ + 1])
    ELSE [s |-> s,
          l |-> [l EXCEPT !.count = @ + 1,
                          !.ttf.chrg.cpMin =
                              NextStart(s, search_pos + replace_len + movepastEOL,
                                        find_len),
                          !.end = @ + replace_len - find_len,
                          !.ttf.chrg.cpMax = l.end + replace_len - find_len],
          exit |-> FALSE]

\* lines 1821-1855: sci_find_text() has returned search_pos and find_len
Matched(s, l, search_pos, find_len) ==
    IF search_pos = -1 THEN LeaveLoop(s, l)
    ELSE IF find_len = 0 /\ l.replace_text = <<>> THEN LeaveLoop(s, l)
    ELSE IF search_pos + find_len > l.end THEN LeaveLoop(s, l)
    ELSE Advance(sci_target_replace(s, search_pos, search_pos + find_len,
                                    l.replace_text),
                 l, search_pos, find_len, Len(l.replace_text),
                 MovePastEOL(s, search_pos + find_len, find_len))

FindLen(hit) == hit.chrgText.cpMax - hit.chrgText.cpMin

ReplaceHit(s, l, hit) == Matched(s, l, hit.pos, FindLen(hit))

\* one turn of the while (TRUE) loop, lines 1815-1856
ReplaceInRange(s, l) == ReplaceHit(s, l, sci_find_text(s, l.flags, l.ttf))

\* the loop is entered on a read-only document as well
ReplaceRangeWhateverReadonly(s, find_text, replace_text, flags, start, end, scroll) ==
    IF find_text = <<>>
    THEN [s |-> s, l |-> NoLoop, exit |-> TRUE]
    ELSE [s |-> s,
          l |-> EnterLoop(s, find_text, replace_text, flags, start, end,
                          scroll),
          exit |-> FALSE]

\* lines 1803-1805: nothing is searched for, or the document is read-only
document_replace_range(s, find_text, replace_text, flags, start, end, scroll) ==
    IF find_text = <<>> \/ s.ro
    THEN [s |-> s, l |-> NoLoop, exit |-> TRUE]
    ELSE [s |-> s,
          l |-> EnterLoop(s, find_text, replace_text, flags, start, end,
                          scroll),
          exit |-> FALSE]

\* document_replace_all(): the whole text is the range, and the last
\* replacement is scrolled into view
document_replace_all(s, find_text, replace_text, flags) ==
    IF find_text = <<>> THEN [s |-> s, l |-> NoLoop, exit |-> TRUE]
    ELSE document_replace_range(s, find_text, replace_text, flags,
                                0, Len(s.text), TRUE)

RECURSIVE RunLoop(_)
\* the while (TRUE) loop of document_replace_range() run until it is left
RunLoop(r) == IF r.exit THEN r ELSE RunLoop(ReplaceInRange(r.s, r.l))

\* document_replace_range() from its call to its return
ReplacedRange(s, find_text, replace_text, flags, start, end, scroll) ==
    RunLoop(document_replace_range(s, find_text, replace_text, flags, start, end, scroll))

SC_SEL_STREAM == "SC_SEL_STREAM"
SC_SEL_RECTANGLE == "SC_SEL_RECTANGLE"
INVALID_POSITION == -1

Larger(a, b) == IF a >= b THEN a ELSE b
Smaller(a, b) == IF a <= b THEN a ELSE b

\* Scintilla's lines: the line of a position, the position a line starts at,
\* the position of its end (before the line end character), its length with
\* the line end character
sci_get_line_from_position(t, pos) == Cardinality({k \in 1..pos : t[k] = EOL})

sci_get_position_from_line(t, line) ==
    IF line = 0 THEN 0
    ELSE IF \E k \in 1..Len(t) : t[k] = EOL /\ sci_get_line_from_position(t, k) = line
    THEN CHOOSE k \in 1..Len(t) : t[k] = EOL /\ sci_get_line_from_position(t, k) = line
    ELSE Len(t)

sci_get_line_end_position(t, line) ==
    IF \E k \in 1..Len(t) : t[k] = EOL /\ sci_get_line_from_position(t, k) = line + 1
    THEN sci_get_position_from_line(t, line + 1) - 1
    ELSE Len(t)

sci_get_line_length(t, line) ==
    sci_get_position_from_line(t, line + 1) - sci_get_position_from_line(t, line)

sci_get_lines_selected(s) ==
    sci_get_line_from_position(s.text, s.se) - sci_get_line_from_position(s.text, s.ss) + 1

Column(t, pos) == pos - sci_get_position_from_line(t, sci_get_line_from_position(t, pos))

\* a rectangular selection takes, of every line it spans, the columns between
\* those of its two corners; a line too short to reach them has no selection
sci_get_pos_at_line_sel_start(t, lo, hi, line) ==
    IF sci_get_position_from_line(t, line) + lo >= sci_get_line_end_position(t, line)
       \/ lo = hi
    THEN INVALID_POSITION
    ELSE sci_get_position_from_line(t, line) + lo

sci_get_pos_at_line_sel_end(t, lo, hi, line) ==
    Smaller(sci_get_position_from_line(t, line) + hi, sci_get_line_end_position(t, line))

\* lines 1754-1762 and 1766-1785: the status bar is told the count either way
show_replace_summary(r) ==
    [r EXCEPT !.ev = @ \cup {<<"summary", 0, r.count>>}]

\* lines 1937-1966: the selection is set anew when something was replaced,
\* utils_beep() when nothing was; then the summary.
SelectionUpdated(r, select) ==
    show_replace_summary(
        IF r.replaced THEN [r EXCEPT !.s = IF select THEN [@ EXCEPT !.ss = r.ss, !.se = r.se]
                                           ELSE @]
        ELSE [r EXCEPT !.ev = @ \cup {<<"beep", 0, "">>}])

\* lines 1929-1935 and 1959-1963: q is what document_replace_range() made of
\* the selection [start, end).
StreamReplaced(q, start) ==
    SelectionUpdated([s |-> q.s, count |-> q.l.count, replaced |-> q.l.new_range_end # -1,
                      ss |-> start, se |-> q.l.new_range_end, ev |-> {},
                      undo |-> q.l.undo],
                     TRUE)

\* lines 1915-1924: q is what document_replace_range() made of the selected
\* part of the line.
LineReplaced(r, q, line) ==
    [r EXCEPT !.s = q.s,
              !.count = @ + q.l.count,
              !.replaced = @ \/ q.l.new_range_end # -1,
              !.max_column =
                  IF q.l.new_range_end # -1
                  THEN Larger(@, q.l.new_range_end
                                     - sci_get_position_from_line(q.s.text, line))
                  ELSE @,
              !.undo = @ + q.l.undo]

RECURSIVE RectLines(_, _, _, _, _, _, _, _)
\* lines 1905-1926: "for (line = first_line; line < (first_line + selected_lines); line++)".
RectLines(r, find_text, replace_text, flags, lo, hi, line, until) ==
    IF line >= until THEN r
    ELSE IF sci_get_pos_at_line_sel_start(r.s.text, lo, hi, line) = INVALID_POSITION
    THEN RectLines(r, find_text, replace_text, flags, lo, hi, line + 1, until)
    ELSE RectLines(
             LineReplaced(r,
                 ReplacedRange(r.s, find_text, replace_text, flags,
                               sci_get_pos_at_line_sel_start(r.s.text, lo, hi, line),
                               sci_get_pos_at_line_sel_end(r.s.text, lo, hi, line),
                               FALSE),
                 line),
             find_text, replace_text, flags, lo, hi, line + 1, until)

\* lines 1897-1927 and 1941-1957: sci_start_undo_action(), the lines one by
\* one, sci_end_undo_action(); the selection is rebuilt when the greatest
\* column fits the last line.
RectReplaced(r, last_line) ==
    SelectionUpdated(
        [r EXCEPT !.undo = @ - 1,
                  !.se = sci_get_position_from_line(r.s.text, last_line) + r.max_column],
        sci_get_line_length(r.s.text, last_line) - 1 >= r.max_column)

\* document_replace_sel(), lines 1872-1969: what is left of the widget, the
\* count, what the user was told, and the undo actions left open.
document_replace_sel(s, find_text, replace_text, flags, selection_mode) ==
    IF find_text = <<>>
    THEN [s |-> s, count |-> 0, replaced |-> FALSE, ss |-> s.ss, se |-> s.se,
          ev |-> {}, undo |-> 0]
    ELSE IF s.se - s.ss = 0
    THEN [s |-> s, count |-> 0, replaced |-> FALSE, ss |-> s.ss, se |-> s.se,
          ev |-> {<<"beep", 0, "">>}, undo |-> 0]
    ELSE IF selection_mode = SC_SEL_RECTANGLE /\ sci_get_lines_selected(s) > 1
    THEN RectReplaced(
             RectLines([s |-> s, count |-> 0, replaced |-> FALSE, ss |-> s.ss,
                        se |-> s.se, ev |-> {}, undo |-> 1, max_column |-> 0],
                       find_text, replace_text, flags,
                       Smaller(Column(s.text, s.ss), Column(s.text, s.se)),
                       Larger(Column(s.text, s.ss), Column(s.text, s.se)),
                       sci_get_line_from_position(s.text, s.ss),
                       sci_get_line_from_position(s.text, s.ss)
                           + sci_get_lines_selected(s)),
             Larger(sci_get_line_from_position(s.text, s.ss),
                    sci_get_line_from_position(s.text, s.se - 1)))
    ELSE StreamReplaced(ReplacedRange(s, find_text, replace_text, flags,
                                      s.ss, s.se, TRUE),
                        s.ss)

\* The widget before any find or replace call.  search.sci is the widget,
\* pc tells whether the loop of document_replace_range() is running, op, arg
\* and ret are the latest call, its arguments with the widget it was made on,
\* and the value it returned (for the two bulk calls the count of
\* replacements so far), asked and depth are the wrap questions and the calls
\* of document_find_text() it made, and calls counts the calls.
EmptyWidget == [text |-> <<>>, ss |-> 0, se |-> 0, ro |-> FALSE]

NoArg ==
    [s |-> EmptyWidget, find_text |-> <<>>, replace_text |-> <<>>,
     flags |-> SCFIND_NONE, backwards |-> FALSE,
     in |-> [suppress_dialogs |-> FALSE, wrap |-> FALSE],
     start |-> 0, end |-> 0]

NoSearch ==
    [sci |-> EmptyWidget, pc |-> "idle", op |-> "", arg |-> NoArg, ret |-> 0,
     asked |-> 0, depth |-> 0, calls |-> 0, loop |-> NoLoop]

(* ---------- callbacks.c: the menu items that record metadata changes --- *)
\* on_menu_write_unicode_bom1_toggled()
ToggleBom(w, i) ==
    IF w.docs[i].readonly THEN w
    ELSE [document_undo_add(w, i, UNDO_BOM, GINT_TO_POINTER(w.docs[i].has_bom))
             EXCEPT !.docs[i].has_bom = ~w.docs[i].has_bom]

\* on_encoding_change()
ChangeEncoding(w, i, charset) ==
    IF charset = w.docs[i].encoding \/ w.docs[i].readonly THEN w
    ELSE document_set_encoding(
             document_undo_add(w, i, UNDO_ENCODING, w.docs[i].encoding), i, charset)

(* ------------------------------ actions ------------------------------- *)
Answers == {"save", "discard", "cancel"}

\* files another program may leave on the disk
SampleFiles == {[bom |-> FALSE, body |-> " "], [bom |-> TRUE, body |-> "e8"],
                [bom |-> FALSE, body |-> "e1"], [bom |-> FALSE, body |-> "bin"],
                [bom |-> FALSE, body |-> "nul"]}

\* the inputs of a handler that asks nothing and whose writes succeed
In0 ==
    [strip |-> FALSE, io |-> "ok", quitting |-> FALSE,
     ans |-> [i \in 1..MaxDocs |-> "cancel"], saveas |-> NULL,
     reload |-> FALSE, resave |-> FALSE, dct |-> TRUE, throttled |-> FALSE,
     readok |-> TRUE, defenc |-> "UTF-8", openenc |-> NULL,
     editor_prefs |-> [use_tabs |-> TRUE, detect_tab_mode |-> TRUE]]

\* the inputs a save reads: the normalisation preference and the file system
SaveInputs ==
    {[In0 EXCEPT !.strip = s, !.io = io] : s \in BOOLEAN, io \in {"ok", "open"}}

\* the inputs the Save As dialog adds: cancelled, or a name and a save
SaveAsInputs ==
    {In0} \cup {[in EXCEPT !.saveas = n] : in \in SaveInputs, n \in Names}

\* the inputs of the disk check: switched off, both questions declined, or
\* the question asked accepted (and then the Save As dialog's inputs)
DiskInputs ==
    {[In0 EXCEPT !.dct = FALSE], In0}
        \cup {[in EXCEPT !.reload = TRUE, !.resave = TRUE] : in \in SaveAsInputs}

\* the inputs of the unsaved-changes dialog of slot i answering a
CloseInputs(untitled) ==
    {[In0 EXCEPT !.ans = [i \in 1..MaxDocs |-> a]] : a \in {"discard", "cancel"}}
        \cup {[in EXCEPT !.ans = [i \in 1..MaxDocs |-> "save"]] :
                 in \in IF untitled THEN SaveAsInputs ELSE SaveInputs}

W == [docs |-> documents, nb |-> notebook, fs |-> disk, now |-> now, ev |-> {}]

Valid(i) == i \in 1..Len(documents) /\ documents[i].is_valid

LedgerRoom(i) ==
    Len(documents[i].undo_actions) + Len(documents[i].redo_actions) < MaxLedger

\* the record of a call: the handler, the slot it was given or returned, its
\* string and boolean arguments, what it returned, why, and what it emitted
Called(op, doc, arg, flag, ret, why, ev) ==
    [op |-> op, doc |-> doc, arg |-> arg, flag |-> flag, ret |-> ret, why |-> why,
     ev |-> ev]

\* what a call changed in slot i: the text, the BOM flag or the charset, named
\* by the kind of ledger entry that records such a change ("" for none)
Effect(w, i) ==
    IF w.docs[i].buf.text # documents[i].buf.text THEN UNDO_SCINTILLA
    ELSE IF w.docs[i].has_bom # documents[i].has_bom THEN UNDO_BOM
    ELSE IF w.docs[i].encoding # documents[i].encoding THEN UNDO_ENCODING
    ELSE ""

\* the value slot i has now for a kind of change
ValueOf(d, kind) ==
    CASE kind = UNDO_SCINTILLA -> d.buf.text
      [] kind = UNDO_BOM -> GINT_TO_POINTER(d.has_bom)
      [] OTHER -> d.encoding

\* slot i starts afresh: allocated, created, loaded or closed by the call
Fresh(w, i) ==
    \/ i > Len(documents)
    \/ \E e \in w.ev : e[2] = i /\ e[1] \in {"created", "loaded", "detach"}

\* the changes in effect in slot i after the call: a change made (or made
\* again by a redo) is added with the value it replaced, an undo that changed
\* something takes the latest one away
NextApplied(w, op, i) ==
    IF Fresh(w, i) THEN <<>>
    ELSE IF Effect(w, i) = "" THEN applied[i]
    ELSE IF op = "undo"
    THEN IF applied[i] = <<>> THEN <<>> ELSE Pop(applied[i])
    ELSE Append(applied[i], [type |-> Effect(w, i),
                             data |-> ValueOf(documents[i], Effect(w, i))])

\* the handler has run: its world becomes the state, with a record of the call
DoneIn(w, b, op, doc, arg, flag, ret, why) ==
    /\ steps < MaxSteps
    /\ Len(w.docs) <= MaxDocs
    /\ documents' = w.docs
    /\ notebook' = w.nb
    /\ disk' = w.fs
    /\ now' = now
    /\ steps' = steps + 1
    /\ last' = Called(op, doc, arg, flag, ret, why, w.ev)
    /\ applied' = [i \in 1..Len(w.docs) |-> NextApplied(w, op, i)]
    /\ search' = search
    /\ batch' = b

\* a handler that leaves delay_colourise and doc_indexes alone has run
Done(w, op, doc, arg, flag, ret, why) ==
    DoneIn(w, batch, op, doc, arg, flag, ret, why)

\* a handler returning gboolean has returned r
Returned(r, op, doc, arg, flag) == Done(r.w, op, doc, arg, flag, r.ret, r.why)

\* a handler returning a document (NULL on failure) has returned r; a call on a
\* document given by the caller is recorded under that document
ReturnedDoc(r, op, doc, arg, flag) ==
    Done(r.w, op, IF doc # 0 THEN doc ELSE r.ret, arg, flag, r.ret # 0, r.why)

\* the outside world has moved
Outside(why) ==
    /\ steps < MaxSteps
    /\ steps' = steps + 1
    /\ last' = Called("external", 0, "", FALSE, TRUE, why, {})
    /\ applied' = applied
    /\ search' = search
    /\ batch' = batch

Init ==
    /\ documents = <<>>
    /\ notebook = <<>>
    /\ disk \in {NoFile} \cup {[exists |-> TRUE, bom |-> FALSE, body |-> b,
                                mtime |-> 0] : b \in {" ", "e1"}}
    /\ now = 0
    /\ steps = 0
    /\ last = Called("init", 0, "", FALSE, TRUE, "", {})
    /\ applied = <<>>
    /\ search = NoSearch
    /\ batch = NoBatch

NewFile ==
    \E name \in Names \cup {NULL} :
        ReturnedDoc(document_new_file(W, name, "", In0), "new", 0, name, FALSE)

OpenFile ==
    \E name \in Names :
        IF AlreadyOpen(W, name) # 0
        THEN \E in \in DiskInputs :
                 ReturnedDoc(document_open_file_full(W, 0, name, FALSE, NULL, in),
                             "open", 0, name, FALSE)
        ELSE \E readonly \in BOOLEAN, readok \in BOOLEAN,
                enc \in {<<NULL, NULL>>, <<"UTF-8", NULL>>, <<NULL, "UTF-8">>} :
                 ReturnedDoc(document_open_file_full(
                                 W, 0, name, readonly, enc[1],
                                 [In0 EXCEPT !.readok = readok, !.openenc = enc[2]]),
                             "open", 0, name, readonly)

(* ---------- the load and save paths, byte by byte ---------------------- *)
\* A file's body given as its bytes (0..255); a C string ends at its first NUL.
BomUtf8 == <<239, 187, 191>>

strlen(data) ==
    IF \E k \in 1..Len(data) : data[k] = 0
    THEN (CHOOSE k \in 1..Len(data) : data[k] = 0 /\ \A j \in 1..(k - 1) : data[j] # 0) - 1
    ELSE Len(data)

CStr(data) == SubSeq(data, 1, strlen(data))

\* the first size bytes of data are those of prefix
StartsWith(data, size, prefix) ==
    /\ size >= Len(prefix)
    /\ Len(data) >= Len(prefix)
    /\ SubSeq(data, 1, Len(prefix)) = prefix

\* encodings_scan_unicode_bom(data, size, &bom_len): the charset a byte-order
\* mark announces (NULL for GEANY_ENCODING_NONE) and the mark's length.
ScanBom(data, size) ==
    IF StartsWith(data, size, BomUtf8) THEN [enc |-> "UTF-8", bom_len |-> 3]
    ELSE IF StartsWith(data, size, <<0, 0, 254, 255>>)
    THEN [enc |-> "UTF-32BE", bom_len |-> 4]
    ELSE IF StartsWith(data, size, <<255, 254, 0, 0>>)
    THEN [enc |-> "UTF-32LE", bom_len |-> 4]
    ELSE IF StartsWith(data, size, <<254, 255>>) THEN [enc |-> "UTF-16BE", bom_len |-> 2]
    ELSE IF StartsWith(data, size, <<255, 254>>) THEN [enc |-> "UTF-16LE", bom_len |-> 2]
    ELSE [enc |-> NULL, bom_len |-> 0]

\* one code point in UTF-8
Utf8Enc(cp) ==
    IF cp < 128 THEN <<cp>>
    ELSE IF cp < 2048 THEN <<192 + (cp \div 64), 128 + (cp % 64)>>
    ELSE IF cp < 65536
    THEN <<224 + (cp \div 4096), 128 + ((cp \div 64) % 64), 128 + (cp % 64)>>
    ELSE <<240 + (cp \div 262144), 128 + ((cp \div 4096) % 64),
           128 + ((cp \div 64) % 64), 128 + (cp % 64)>>

Cont(d, k) == Len(d) >= k /\ d[k] \in 128..191

IsCodePoint(cp) == cp \in 0..1114111 /\ cp \notin 55296..57343

\* the first character of UTF-8 bytes: its length n (0 when the bytes do not
\* start with a character) and its code point
FirstChar(d) ==
    IF d[1] < 128 THEN [n |-> 1, cp |-> d[1]]
    ELSE IF d[1] \in 194..223 /\ Cont(d, 2)
    THEN [n |-> 2, cp |-> (d[1] - 192) * 64 + (d[2] - 128)]
    ELSE IF /\ d[1] \in 224..239 /\ Cont(d, 2) /\ Cont(d, 3)
            /\ (d[1] - 224) * 4096 + (d[2] - 128) * 64 + (d[3] - 128) >= 2048
            /\ IsCodePoint((d[1] - 224) * 4096 + (d[2] - 128) * 64 + (d[3] - 128))
    THEN [n |-> 3, cp |-> (d[1] - 224) * 4096 + (d[2] - 128) * 64 + (d[3] - 128)]
    ELSE IF /\ d[1] \in 240..244 /\ Cont(d, 2) /\ Cont(d, 3) /\ Cont(d, 4)
            /\ (d[1] - 240) * 262144 + (d[2] - 128) * 4096
                   + (d[3] - 128) * 64 + (d[4] - 128) \in 65536..1114111
    THEN [n |-> 4, cp |-> (d[1] - 240) * 262144 + (d[2] - 128) * 4096
                              + (d[3] - 128) * 64 + (d[4] - 128)]
    ELSE [n |-> 0, cp |-> -1]

RECURSIVE Utf8Dec(_)
\* the code points of UTF-8 bytes; -1 where the bytes stop being UTF-8
Utf8Dec(d) ==
    IF d = <<>> THEN <<>>
    ELSE IF FirstChar(d).n = 0 THEN <<-1>>
    ELSE <<FirstChar(d).cp>> \o Utf8Dec(SubSeq(d, FirstChar(d).n + 1, Len(d)))

Decoded(cps) == \A k \in 1..Len(cps) : IsCodePoint(cps[k])

\* g_utf8_validate(data, len, NULL) on bytes
Utf8Valid(d) == Decoded(Utf8Dec(d))

RECURSIVE Utf16Dec(_, _)
\* the code points of UTF-16 bytes, little endian or big; surrogate pairs do
\* not occur in the bytes of this model and a surrogate is an error (-1), as
\* is an odd byte left over
Utf16Dec(d, le) ==
    IF d = <<>> THEN <<>>
    ELSE IF Len(d) = 1 THEN <<-1>>
    ELSE LET u == IF le THEN d[1] + 256 * d[2] ELSE 256 * d[1] + d[2]
         IN <<IF IsCodePoint(u) THEN u ELSE -1>> \o Utf16Dec(SubSeq(d, 3, Len(d)), le)

RECURSIVE Utf32Dec(_, _)
\* the code points of UTF-32 bytes; a unit whose high byte is not 0 is beyond
\* the last code point
Utf32Dec(d, le) ==
    IF d = <<>> THEN <<>>
    ELSE IF Len(d) < 4 THEN <<-1>>
    ELSE LET u == IF le THEN IF d[4] # 0 THEN -1 ELSE d[1] + 256 * d[2] + 65536 * d[3]
                  ELSE IF d[1] # 0 THEN -1 ELSE 65536 * d[2] + 256 * d[3] + d[4]
         IN <<IF IsCodePoint(u) THEN u ELSE -1>> \o Utf32Dec(SubSeq(d, 5, Len(d)), le)

\* the code points of bytes in a charset
DecodeCharset(d, charset) ==
    CASE charset = "UTF-16LE" -> Utf16Dec(d, TRUE)
      [] charset = "UTF-16BE" -> Utf16Dec(d, FALSE)
      [] charset = "UTF-32LE" -> Utf32Dec(d, TRUE)
      [] charset = "UTF-32BE" -> Utf32Dec(d, FALSE)
      [] charset = "UTF-8" -> Utf8Dec(d)
      [] OTHER -> d

\* one code point in a charset, <<-1>> when the charset has no such character
EncodeChar(cp, charset) ==
    CASE charset = "UTF-16LE" ->
             IF cp < 65536 THEN <<cp % 256, cp \div 256>>
             ELSE <<((cp - 65536) \div 1024) % 256, 216 + ((cp - 65536) \div 262144),
                    (cp % 1024) % 256, 220 + ((cp % 1024) \div 256)>>
      [] charset = "UTF-16BE" ->
             IF cp < 65536 THEN <<cp \div 256, cp % 256>>
             ELSE <<216 + ((cp - 65536) \div 262144), ((cp - 65536) \div 1024) % 256,
                    220 + ((cp % 1024) \div 256), (cp % 1024) % 256>>
      [] charset = "UTF-32LE" ->
             <<cp % 256, (cp \div 256) % 256, (cp \div 65536) % 256, 0>>
      [] charset = "UTF-32BE" ->
             <<0, (cp \div 65536) % 256, (cp \div 256) % 256, cp % 256>>
      [] charset = "UTF-8" -> Utf8Enc(cp)
      [] OTHER -> IF cp < 256 THEN <<cp>> ELSE <<-1>>

RECURSIVE EncodeCharset(_, _)
EncodeCharset(cps, charset) ==
    IF cps = <<>> THEN <<>>
    ELSE EncodeChar(cps[1], charset) \o EncodeCharset(Tail(cps), charset)

\* g_convert(d, to, from): an error when d is not text in the charset from or
\* holds a character the charset to lacks
Convert(d, to, from) ==
    IF ~Decoded(DecodeCharset(d, from)) THEN [ok |-> FALSE, data |-> <<>>]
    ELSE [ok |-> \A k \in 1..Len(EncodeCharset(DecodeCharset(d, from), to)) :
                    EncodeCharset(DecodeCharset(d, from), to)[k] >= 0,
          data |-> EncodeCharset(DecodeCharset(d, from), to)]

\* c is what g_convert made of the bytes: the text is taken when it is valid
\* UTF-8 over its whole length, which a NUL in it is not
Validated(c) == [ok |-> c.ok /\ \A k \in 1..Len(c.data) : c.data[k] # 0, data |-> c.data]

\* encodings_convert_to_utf8_from_charset(data, size, charset, FALSE)
ConvertToUtf8(data, size, charset) ==
    Validated(Convert(SubSeq(data, 1, size), "UTF-8", charset))

\* the charsets encodings_convert_to_utf8() tries, in its order
GuessOrder == <<"ISO-8859-1", "UTF-16LE", "UTF-16BE", "UTF-32LE", "UTF-32BE">>

\* encodings_convert_to_utf8(data, size, &enc): the first charset the bytes
\* convert from, NULL when there is none.
GuessCharset(data, size) ==
    IF \A k \in 1..Len(GuessOrder) : ~ConvertToUtf8(data, size, GuessOrder[k]).ok
    THEN [ok |-> FALSE, enc |-> NULL, data |-> <<>>]
    ELSE [ok |-> TRUE,
          enc |-> GuessOrder[FirstSlot({k \in 1..Len(GuessOrder) :
                                           ConvertToUtf8(data, size, GuessOrder[k]).ok})],
          data |-> ConvertToUtf8(data, size,
                       GuessOrder[FirstSlot({k \in 1..Len(GuessOrder) :
                           ConvertToUtf8(data, size, GuessOrder[k]).ok})]).data]

\* load_text_file(), lines 837-860: the bytes, st.st_size and strlen().
ReadFile(file) ==
    [ok |-> TRUE, data |-> file.body, size |-> Len(file.body),
     len |-> strlen(file.body), enc |-> NULL, bom |-> FALSE, readonly |-> FALSE]

\* every file that holds a NUL is taken for cut short
WarnWhateverBom(fd) ==
    [fd EXCEPT !.readonly = fd.len # fd.size /\ fd.size # 0]

\* lines 863-886: "the file could not be opened properly and has been
\* truncated ... the file was set to read-only".
WarnTruncated(fd) ==
    [fd EXCEPT !.readonly = /\ fd.len # fd.size
                            /\ fd.size # 0
                            /\ ScanBom(fd.data, fd.size).enc \in {"UTF-8", "UTF-7", NULL}]

\* c is the text converted from the charset the mark announced
BomConverted(fd, enc, c) ==
    IF c.ok THEN [fd EXCEPT !.enc = enc, !.bom = TRUE, !.data = c.data,
                            !.len = strlen(c.data)]
    ELSE fd

\* the mark's charset and the flag stay when the conversion fails
BomKeptWhateverConverts(fd) ==
    IF ScanBom(fd.data, fd.size).enc = NULL THEN fd
    ELSE [BomConverted(fd, ScanBom(fd.data, fd.size).enc,
                       ConvertToUtf8(fd.data, fd.size, ScanBom(fd.data, fd.size).enc))
             EXCEPT !.enc = ScanBom(fd.data, fd.size).enc, !.bom = TRUE]

\* handle_encoding(), lines 757-785: "first check for a BOM".
DetectBom(fd) ==
    IF ScanBom(fd.data, fd.size).enc = NULL THEN fd
    ELSE IF ScanBom(fd.data, fd.size).enc = "UTF-8"
    THEN [fd EXCEPT !.enc = "UTF-8", !.bom = TRUE]
    ELSE BomConverted(fd, ScanBom(fd.data, fd.size).enc,
                      ConvertToUtf8(fd.data, fd.size, ScanBom(fd.data, fd.size).enc))

\* g is the guess of the charset
Guessed(fd, g) ==
    IF ~g.ok THEN [fd EXCEPT !.ok = FALSE]
    ELSE [fd EXCEPT !.enc = g.enc, !.data = g.data, !.len = strlen(g.data)]

\* handle_encoding(), lines 787-809: "either there was no BOM or the BOM
\* encoding failed".
DetectCharset(fd) ==
    IF fd.enc # NULL THEN fd
    ELSE IF Utf8Valid(SubSeq(fd.data, 1, fd.len)) THEN [fd EXCEPT !.enc = "UTF-8"]
    ELSE Guessed(fd, GuessCharset(fd.data, fd.size))

\* handle_encoding(), lines 743-811, on bytes.
HandleEncoding(fd) ==
    IF fd.size = 0 THEN [fd EXCEPT !.enc = "UTF-8"]
    ELSE DetectCharset(DetectBom(fd))

\* handle_bom(), lines 814-826: the mark is looked for in the converted text
\* within the file's size; g_return_if_fail(bom_len != 0).
HandleBom(fd) ==
    IF ~fd.ok \/ ~fd.bom \/ ScanBom(fd.data, fd.size).bom_len = 0 THEN fd
    ELSE [fd EXCEPT !.len = @ - ScanBom(fd.data, fd.size).bom_len,
                    !.data = SubSeq(@, ScanBom(fd.data, fd.size).bom_len + 1, Len(@))]

\* fd as document_open_file_full() takes it: the text is the C string data.
AsFileData(fd, file) ==
    [ok |-> fd.ok, why |-> IF fd.ok THEN "" ELSE "detect", text |-> CStr(fd.data),
     enc |-> fd.enc, bom |-> fd.bom, mtime |-> file.mtime, readonly |-> fd.readonly]

\* load_text_file(), lines 830-917, with forced_enc = NULL, on a file that
\* is there and can be read.
LoadFileData(file) ==
    AsFileData(HandleBom(HandleEncoding(WarnTruncated(ReadFile(file)))), file)

\* document_save_file(), lines 1476-1490: the text, a UTF-8 BOM before it when
\* the document has one and its charset is a Unicode one.
TextToSave(d) ==
    IF d.has_bom /\ encodings_is_unicode_charset(d.encoding)
    THEN BomUtf8 \o d.buf.text
    ELSE d.buf.text

\* lines 1493-1508 and save_convert_to_encoding(): c is the converted text.
Encoded(d, c) ==
    IF d.encoding # NULL /\ d.encoding # "UTF-8" /\ d.encoding # NONE_CHARSET
    THEN [ok |-> c.ok, bom |-> FALSE, body |-> c.data]
    ELSE [ok |-> TRUE, bom |-> FALSE, body |-> CStr(TextToSave(d))]

SaveDataBytes(d) == Encoded(d, Convert(TextToSave(d), d.encoding, "UTF-8"))

\* document_save_file(), lines 1448-1564, without the normalisations.
SaveFileData(w, i, force, in) ==
    IF i = 0 THEN Ret(w, FALSE, "nodoc")
    ELSE IF SaveNotNeeded(w, i, force) THEN Ret(w, FALSE, "noop")
    ELSE IF w.docs[i].file_name = NULL THEN Ret(w, FALSE, "noname")
    ELSE IF ~SaveDataBytes(w.docs[i]).ok THEN Ret(w, FALSE, "conv")
    ELSE SaveWritten(write_data_to_disk(w, i, SaveDataBytes(w.docs[i]), in.io), i, in)

\* the lists of files a batch opens
FileLists == {<<n>> : n \in Names} \cup {<<"a", "l">>}

OpenFiles ==
    \E filenames \in FileLists, readonly \in BOOLEAN, recolour \in BOOLEAN,
       readok \in BOOLEAN :
        Returned(document_open_files(W, filenames, readonly, NULL,
                                     [In0 EXCEPT !.readok = readok], recolour),
                 "open_files", 0, Head(filenames), recolour)

ReloadFile ==
    \E i \in 1..Len(documents), forced \in {NULL, "UTF-8"}, readok \in BOOLEAN :
        /\ Valid(i)
        /\ ReturnedDoc(document_reload_file(W, i, forced, [In0 EXCEPT !.readok = readok]),
                       "reload", i, forced, FALSE)

SaveFile ==
    \E i \in 1..Len(documents), force \in BOOLEAN, strip \in BOOLEAN,
       io \in {"ok", "open", "partial"} :
        /\ Valid(i)
        /\ Returned(document_save_file(W, i, force,
                                       [In0 EXCEPT !.strip = strip, !.io = io]),
                    "save", i, io, force)

SaveFileAs ==
    \E i \in 1..Len(documents), name \in Names \cup {NULL}, in \in SaveInputs :
        /\ Valid(i)
        /\ Returned(document_save_file_as(W, i, name, in), "save_as", i, name, TRUE)

RemovePage ==
    \E p \in 1..Len(notebook) :
        \E in \in IF documents[notebook[p]].changed
                  THEN CloseInputs(documents[notebook[p]].file_name = NULL)
                  ELSE {In0} :
            Returned(document_remove_page(W, p, in),
                     "close", notebook[p], in.ans[notebook[p]], FALSE)

\* the answers a close-all may get: only a changed document is asked
CloseAllAnswers ==
    {ans \in [1..MaxDocs -> Answers] :
        \A i \in 1..MaxDocs : ans[i] # "cancel" => Valid(i) /\ documents[i].changed}

\* the inputs of a close-all: the per-slot answers, whether the program is
\* quitting, and one set of save inputs that serves every save of the call
CloseAllInputs ==
    UNION {{[sv EXCEPT !.ans = ans, !.quitting = quitting] :
               sv \in IF \E i \in 1..MaxDocs : ans[i] = "save"
                      THEN SaveAsInputs ELSE {In0},
               quitting \in BOOLEAN} :
           ans \in CloseAllAnswers}

CloseAll ==
    /\ Len(notebook) > 0
    /\ \E in \in CloseAllInputs :
           Returned(document_close_all(W, in), "close_all", 0, "", in.quitting)

CheckDisk ==
    \E i \in 1..Len(documents), force \in BOOLEAN :
        /\ Valid(i)
        /\ \E in \in DiskInputs \cup IF force THEN {} ELSE {[In0 EXCEPT !.throttled = TRUE]} :
            Returned(document_check_disk_status(W, i, force, in),
                     "check_disk", i, "", force)

\* the user types: the buffer changes and tells the editor's handler
Edit ==
    \E i \in 1..Len(documents), t \in {" ", "E"} :
        /\ Valid(i)
        /\ LedgerRoom(i)
        /\ t # documents[i].buf.text
        /\ ~documents[i].readonly
        /\ Done(BufferEdit(W, i, t), "edit", i, t, FALSE, TRUE, "")

WriteBom ==
    \E i \in 1..Len(documents) :
        /\ Valid(i)
        /\ LedgerRoom(i)
        /\ Done(ToggleBom(W, i), "toggle_bom", i, "", FALSE, TRUE, "")

SetEncoding ==
    \E i \in 1..Len(documents), charset \in Charsets :
        /\ Valid(i)
        /\ LedgerRoom(i)
        /\ charset # documents[i].encoding
        /\ Done(ChangeEncoding(W, i, charset), "set_encoding", i, charset, FALSE, TRUE, "")

Undo ==
    \E i \in 1..Len(documents) :
        /\ Valid(i)
        /\ Done(document_undo(W, i), "undo", i, "", FALSE, TRUE, "")

Redo ==
    \E i \in 1..Len(documents) :
        /\ Valid(i)
        /\ Done(document_redo(W, i), "redo", i, "", FALSE, TRUE, "")

\* another program writes or deletes the file; the clock advances
ExternalWrite ==
    \E f \in SampleFiles, t \in now..MaxTime :
        /\ disk' = [exists |-> TRUE, bom |-> f.bom, body |-> f.body, mtime |-> t]
        /\ now' = t
        /\ Outside("write")
        /\ UNCHANGED <<documents, notebook>>

ExternalDelete ==
    /\ disk.exists
    /\ disk' = NoFile
    /\ Outside("delete")
    /\ UNCHANGED <<documents, notebook, now>>

Tick ==
    /\ now < MaxTime
    /\ now' = now + 1
    /\ Outside("tick")
    /\ UNCHANGED <<documents, notebook, disk>>

Next ==
    \/ NewFile \/ OpenFile \/ ReloadFile \/ SaveFile \/ SaveFileAs
    \/ RemovePage \/ CloseAll \/ CheckDisk
    \/ Edit \/ WriteBom \/ SetEncoding \/ Undo \/ Redo
    \/ ExternalWrite \/ ExternalDelete \/ Tick

Spec == Init /\ [][Next]_vars

\* A session already under way: a named new document and an untitled one, as
\* two calls of document_new_file() leave the empty registry.
SessionWorld ==
    document_new_file(
        document_new_file(
            [docs |-> <<>>, nb |-> <<>>, fs |-> NoFile, now |-> 0, ev |-> {}],
            "a", "", In0).w,
        NULL, "", In0).w

\* the program's variables hold the registry w
Holds(w) ==
    /\ documents = w.docs
    /\ notebook = w.nb
    /\ disk = w.fs
    /\ now = w.now

InitSession ==
    /\ Holds(SessionWorld)
    /\ steps = 0
    /\ last = Called("init", 0, "", FALSE, TRUE, "", {})
    /\ applied = [i \in 1..Len(SessionWorld.docs) |-> <<>>]
    /\ search = NoSearch
    /\ batch = NoBatch

SpecSession == InitSession /\ [][Next]_vars

\* Files opened in batches: documents are created, edited and closed, files
\* appear on the disk, and lists of files are opened in one call.
NextBatch ==
    \/ NewFile \/ OpenFiles \/ RemovePage \/ Edit \/ ExternalWrite

SpecBatch == Init /\ [][NextBatch]_vars

\* Indentation: a widget holds a text of up to MaxLines lines, each starting
\* with a tab, two blanks, one blank or a letter, or empty, and the
\* indentation of a document of some filetype is set from it.
LineSamples == {<<TAB>>, <<SPACE, SPACE>>, <<SPACE, "x">>, <<"x">>, <<>>}

RECURSIVE Joined(_)
Joined(lines) ==
    IF Len(lines) = 1 THEN lines[1] ELSE lines[1] \o <<EOL>> \o Joined(Tail(lines))

IndentTexts ==
    {Joined(lines) : lines \in UNION {[1..n -> LineSamples] : n \in 1..MaxLines}}

EditorPrefs == [use_tabs : BOOLEAN, detect_tab_mode : BOOLEAN]

InitIndent ==
    /\ documents = <<>>
    /\ notebook = <<>>
    /\ disk = NoFile
    /\ now = 0
    /\ steps = 0
    /\ last = Called("init", 0, "", FALSE, TRUE, "", {})
    /\ applied = <<>>
    /\ search \in {[NoSearch EXCEPT !.sci.text = t] : t \in IndentTexts}
    /\ batch = NoBatch

SetIndentation ==
    \E file_type \in {"Make", "C", "None"}, editor_prefs \in EditorPrefs :
        /\ steps < MaxCalls
        /\ steps' = steps + 1
        /\ last' = Called("set_indentation", 0, file_type, editor_prefs.use_tabs,
                          set_indentation(search.sci, file_type, editor_prefs).use_tabs,
                          set_indentation(search.sci, file_type, editor_prefs).why, {})
        /\ UNCHANGED <<documents, notebook, disk, now, applied, search, batch>>

SpecIndent == InitIndent /\ [][SetIndentation]_vars

\* Bytes on the disk: a file made of up to MaxChunks pieces (byte-order marks,
\* a letter, a NUL, e-acute in Latin-1 and in UTF-8) is opened under the name
\* "a", with the detection of tabs and spaces switched off, and saved again.
Chunks == {BomUtf8, <<255, 254>>, <<254, 255>>, <<97>>, <<0>>, <<233>>, <<195, 169>>}

RECURSIVE Flat(_)
Flat(pieces) == IF pieces = <<>> THEN <<>> ELSE pieces[1] \o Flat(Tail(pieces))

ByteFiles ==
    {[exists |-> TRUE, bom |-> FALSE, body |-> Flat(pieces), mtime |-> 0] :
        pieces \in UNION {[1..n -> Chunks] : n \in 0..MaxChunks}}

InitBytes ==
    /\ documents = <<>>
    /\ notebook = <<>>
    /\ disk \in ByteFiles
    /\ now = 0
    /\ steps = 0
    /\ last = Called("init", 0, "", FALSE, TRUE, "", {})
    /\ applied = <<>>
    /\ search = NoSearch
    /\ batch = NoBatch

OpenBytes ==
    \E readonly \in BOOLEAN :
        /\ documents = <<>>
        /\ ReturnedDoc(OpenData(W, 0, "a", LoadFileData(disk), readonly,
                                [In0 EXCEPT !.editor_prefs.detect_tab_mode = FALSE]),
                       "open", 0, "a", readonly)

SaveBytes ==
    \E i \in 1..Len(documents), force \in BOOLEAN :
        /\ Valid(i)
        /\ last.op = "open"
        /\ Returned(SaveFileData(W, i, force, In0), "save", i, "", force)

NextBytes == OpenBytes \/ SaveBytes

SpecBytes == InitBytes /\ [][NextBytes]_vars

\* One document at work: file "a" has been opened from the disk, and the calls
\* are those that change the document, undo and redo the changes, save it and
\* check its file.  LedgerSteps calls are followed.
LedgerWorld ==
    document_open_file_full(
        [docs |-> <<>>, nb |-> <<>>,
         fs |-> [exists |-> TRUE, bom |-> FALSE, body |-> " ", mtime |-> 0],
         now |-> 0, ev |-> {}],
        0, "a", FALSE, NULL, In0).w

InitLedger ==
    /\ Holds(LedgerWorld)
    /\ steps = MaxSteps - LedgerSteps
    /\ last = Called("init", 0, "", FALSE, TRUE, "", {})
    /\ applied = [i \in 1..Len(LedgerWorld.docs) |-> <<>>]
    /\ search = NoSearch
    /\ batch = NoBatch

NextLedger ==
    \/ Edit \/ WriteBom \/ SetEncoding \/ Undo \/ Redo
    \/ SaveFile \/ CheckDisk \/ ExternalDelete

SpecLedger == InitLedger /\ [][NextLedger]_vars

\* The find and replace calls on one widget.  The widget starts with any text
\* of up to MaxText characters, any selection and either setting of
\* read-only, or with the text "foo bar foo" and the caret at its start;
\* MaxCalls calls are followed, and the loop of document_replace_range()
\* takes one step per turn.
SearchChars == {"a", EOL}
FooBarFoo == <<"f", "o", "o", " ", "b", "a", "r", " ", "f", "o", "o">>
SearchTexts == UNION {[1..n -> SearchChars] : n \in 0..MaxText}
Widgets ==
    {s \in [text : SearchTexts, ss : 0..MaxText, se : 0..MaxText,
            ro : BOOLEAN] : s.ss <= s.se /\ s.se <= Len(s.text)}
    \cup {[text |-> FooBarFoo, ss |-> 0, se |-> 0, ro |-> FALSE]}
Literals == {<<>>, <<"a">>, <<"a", "a">>, <<"a", "b">>, <<"f", "o", "o">>}
Regexes == {AStar, LineStart, LineEnd, <<"a">>}
Patterns ==
    {[text |-> t, flags |-> SCFIND_NONE] : t \in Literals}
    \cup {[text |-> t, flags |-> SCFIND_REGEXP] : t \in Regexes}
Replacements == {<<>>, <<"a", "a">>, <<"b", "a", "z">>}
NoAnswer == [suppress_dialogs |-> FALSE, wrap |-> FALSE]

Arg(p, replace_text, backwards, in, start, end) ==
    [s |-> search.sci, find_text |-> p.text, replace_text |-> replace_text,
     flags |-> p.flags, backwards |-> backwards, in |-> in,
     start |-> start, end |-> end]

\* no call is running, and another may be made
Idle == search.pc = "idle" /\ search.calls < MaxCalls

\* a call has been made on the widget
Call(op, arg, s, pc, ret, asked, depth, loop) ==
    /\ search' = [sci |-> s, pc |-> pc, op |-> op, arg |-> arg, ret |-> ret,
                  asked |-> asked, depth |-> depth,
                  calls |-> search.calls + 1, loop |-> loop]
    /\ UNCHANGED <<documents, notebook, disk, now, steps, last, applied, batch>>

FindReturned(r, arg) ==
    Call("find", arg, r.s, "idle", r.ret, r.asked, r.calls, NoLoop)

Find ==
    /\ Idle
    /\ \E p \in Patterns, backwards \in BOOLEAN, in \in FindAnswers :
        FindReturned(
            document_find_text(search.sci, p.text, p.flags, backwards, in),
            Arg(p, <<>>, backwards, in, 0, 0))

ReplaceReturned(r, arg) ==
    Call("replace", arg, r.s, "idle", r.ret, 0, 0, NoLoop)

Replace ==
    /\ Idle
    /\ \E p \in Patterns, replace_text \in Replacements,
          backwards \in BOOLEAN, in \in FindAnswers :
        ReplaceReturned(
            document_replace_text(search.sci, p.text, replace_text, p.flags,
                                  backwards, in),
            Arg(p, replace_text, backwards, in, 0, 0))

RangeEntered(r, op, arg) ==
    Call(op, arg, r.s, IF r.exit THEN "idle" ELSE "loop", r.l.count, 0, 0, r.l)

\* document_replace_sel() calls document_replace_range() on the selection,
\* without scrolling to the last match
ReplaceRange ==
    /\ Idle
    /\ \E p \in Patterns, replace_text \in Replacements,
          end \in 0..Len(search.sci.text) :
        \E start \in 0..end :
            RangeEntered(
                document_replace_range(search.sci, p.text, replace_text,
                                       p.flags, start, end, FALSE),
                "replace_range",
                Arg(p, replace_text, FALSE, NoAnswer, start, end))

ReplaceAll ==
    /\ Idle
    /\ \E p \in Patterns, replace_text \in Replacements :
        RangeEntered(
            document_replace_all(search.sci, p.text, replace_text, p.flags),
            "replace_all",
            Arg(p, replace_text, FALSE, NoAnswer, 0, Len(search.sci.text)))

\* document_replace_sel() has returned r: the status bar, the beep and the
\* undo actions left open are recorded with the call
SelReplaced(r, arg, selection_mode) ==
    /\ search' = [sci |-> r.s, pc |-> "idle", op |-> "replace_sel", arg |-> arg,
                  ret |-> r.count, asked |-> 0, depth |-> 0,
                  calls |-> search.calls + 1, loop |-> NoLoop]
    /\ last' = Called("replace_sel", 0, selection_mode, FALSE, r.count > 0, "",
                      r.ev \cup {<<"undo_depth", 0, r.undo>>})
    /\ UNCHANGED <<documents, notebook, disk, now, steps, applied, batch>>

ReplaceSel ==
    /\ Idle
    /\ \E p \in Patterns, replace_text \in Replacements,
          selection_mode \in {SC_SEL_STREAM, SC_SEL_RECTANGLE} :
        SelReplaced(
            document_replace_sel(search.sci, p.text, replace_text, p.flags,
                                 selection_mode),
            Arg(p, replace_text, FALSE, NoAnswer, search.sci.ss, search.sci.se),
            selection_mode)

\* the search of the toolbar has returned
BarReturned(r, arg, inc) ==
    /\ search' = [sci |-> r.s, pc |-> "idle", op |-> "search_bar_find",
                  arg |-> arg, ret |-> r.pos, asked |-> 0, depth |-> 0,
                  calls |-> search.calls + 1, loop |-> NoLoop]
    /\ last' = Called("search_bar_find", 0, "", inc, r.ret,
                      IF r.wrapped THEN "wrapped" ELSE "", r.ev)
    /\ UNCHANGED <<documents, notebook, disk, now, steps, applied, batch>>

SearchBarFind ==
    /\ Idle
    /\ \E p \in Patterns, inc \in BOOLEAN :
        BarReturned(
            document_search_bar_find(search.sci, p.text, p.flags, inc),
            Arg(p, <<>>, FALSE, NoAnswer, BarAnchor(search.sci, inc), 0), inc)

\* the loop of document_replace_range() has taken a turn
Turned(r) ==
    /\ search' = [search EXCEPT !.sci = r.s, !.loop = r.l, !.ret = r.l.count,
                                !.pc = IF r.exit THEN "idle" ELSE "loop"]
    /\ UNCHANGED <<documents, notebook, disk, now, steps, last, applied, batch>>

ReplaceLoop ==
    /\ search.pc = "loop"
    /\ Turned(ReplaceInRange(search.sci, search.loop))

InitSearch ==
    /\ documents = <<>>
    /\ notebook = <<>>
    /\ disk = NoFile
    /\ now = 0
    /\ steps = 0
    /\ last = Called("init", 0, "", FALSE, TRUE, "", {})
    /\ applied = <<>>
    /\ search \in {[NoSearch EXCEPT !.sci = s] : s \in Widgets}
    /\ batch = NoBatch

NextSearch ==
    \/ Find \/ Replace \/ ReplaceRange \/ ReplaceAll \/ ReplaceSel
    \/ SearchBarFind \/ ReplaceLoop

SpecSearch == InitSearch /\ [][NextSearch]_vars

\* Delayed styling: documents are created, opened and closed and files
\* appear on the disk while document_delay_colourise(),
\* document_colourise_new() and document_open_files() are called in any order.
BatchReturned(r, op, arg, flag) ==
    DoneIn(r.w, r.b, op, 0, arg, flag, r.ret, r.why)

DelayColourise ==
    BatchReturned([w |-> W, b |-> DelayBatch(batch, W),
                   ret |-> ~BeginRejected(batch),
                   why |-> IF BeginRejected(batch) THEN "rejected" ELSE "batch"],
                  "delay_colourise", "", FALSE)

ColouriseNew ==
    \E recolour \in BOOLEAN :
        BatchReturned(ColouriseBatch(batch, W, recolour), "colourise_new", "",
                      recolour)

OpenFilesDelayed ==
    \E filenames \in FileLists, recolour \in BOOLEAN :
        BatchReturned(OpenFilesIn(batch, W, filenames, FALSE, NULL, In0, recolour),
                      "open_files", Head(filenames), recolour)

NextDelay ==
    \/ DelayColourise \/ ColouriseNew \/ OpenFilesDelayed
    \/ NewFile \/ OpenFile \/ RemovePage \/ ExternalWrite

SpecDelay == Init /\ [][NextDelay]_vars

\* Reloading: file "a", a blank or an indented line, has been opened under
\* some setting of the indentation preferences; the document is edited, its
\* BOM toggled, changes undone, the file rewritten by another program, and the
\* document reloaded, by the user or by the disk check, under any setting of
\* the preferences.  ReloadSteps calls are followed.
ReloadSteps == 4

ReloadBodies == {" ", IndentedText}

ReloadWorld(editor_prefs, body) ==
    document_open_file_full(
        [docs |-> <<>>, nb |-> <<>>,
         fs |-> [exists |-> TRUE, bom |-> FALSE, body |-> body, mtime |-> 0],
         now |-> 0, ev |-> {}],
        0, "a", FALSE, NULL, [In0 EXCEPT !.editor_prefs = editor_prefs]).w

InitReload ==
    /\ \E editor_prefs \in EditorPrefs, body \in ReloadBodies :
           Holds(ReloadWorld(editor_prefs, body))
    /\ steps = MaxSteps - ReloadSteps
    /\ last = Called("init", 0, "", FALSE, TRUE, "", {})
    /\ applied = <<<<>>>>
    /\ search = NoSearch
    /\ batch = NoBatch

ExternalRewrite ==
    \E body \in ReloadBodies, t \in now..MaxTime :
        /\ disk' = [exists |-> TRUE, bom |-> FALSE, body |-> body, mtime |-> t]
        /\ now' = t
        /\ Outside("write")
        /\ UNCHANGED <<documents, notebook>>

ReloadWithPrefs ==
    \E i \in 1..Len(documents), editor_prefs \in EditorPrefs, readok \in BOOLEAN :
        /\ Valid(i)
        /\ ReturnedDoc(document_reload_file(
                           W, i, NULL,
                           [In0 EXCEPT !.readok = readok, !.editor_prefs = editor_prefs]),
                       "reload", i, NULL, FALSE)

NextReload ==
    \/ Edit \/ WriteBom \/ Undo \/ ExternalRewrite \/ ReloadWithPrefs \/ CheckDisk

SpecReload == InitReload /\ [][NextReload]_vars

(* ----------------------------- properties ----------------------------- *)
ValidSlots == {i \in 1..Len(documents) : documents[i].is_valid}

\* the composite of update_changed_state(), read off a document
Composite(d) ==
    \/ sci_is_modified(d.buf)
    \/ d.has_bom # d.saved_encoding.has_bom
    \/ d.encoding # d.saved_encoding.encoding

\* content, encoding and ledger of slot i are the same before and after the step
SameText(i) ==
    /\ documents'[i].buf.text = documents[i].buf.text
    /\ documents'[i].encoding = documents[i].encoding
    /\ documents'[i].has_bom = documents[i].has_bom
    /\ documents'[i].undo_actions = documents[i].undo_actions
    /\ documents'[i].redo_actions = documents[i].redo_actions

\* the step allocates no slot and closes none
SameRegistry ==
    /\ Len(documents') = Len(documents)
    /\ notebook' = notebook
    /\ \A i \in 1..Len(documents) :
           /\ documents'[i].is_valid = documents[i].is_valid
           /\ documents'[i].sci = documents[i].sci

\* C1: no two valid documents have the same canonical real path.
UniqueRealPath ==
    \A i, j \in ValidSlots :
        (i # j /\ documents[i].real_path # NULL)
            => documents[i].real_path # documents[j].real_path

\* C2 as stated: a fresh open of a path that matches a valid document returns
\* that document, allocates no slot and leaves the valid documents and the
\* document's content, encoding and ledger as they were.
OpenExistingTouchesNothing ==
    [][LET i == document_find_by_filename(W, last'.arg)
       IN (last'.op = "open" /\ i # 0)
              => /\ last'.doc = i
                 /\ SameRegistry
                 /\ SameText(i)]_vars

\* C2: a fresh open of a path that matches a valid document returns that
\* document, allocates no slot and leaves the valid documents as they were;
\* the document's content, encoding and ledger are as they were unless the
\* forced disk check asked to reload or to re-save and the answer was yes.
OpenExistingReturnsIt ==
    [][LET i == document_find_by_filename(W, last'.arg)
       IN (last'.op = "open" /\ i # 0)
              => /\ last'.doc = i
                 /\ last'.ret
                 /\ SameRegistry
                 /\ \/ SameText(i)
                    \/ <<"ask_reload", i, "yes">> \in last'.ev
                    \/ <<"ask_resave", i, "yes">> \in last'.ev]_vars

\* C2: an open found the document already open, its file newer on disk, and
\* reloaded it on the user's yes.
OpenExistingReloaded ==
    /\ last.op = "open"
    /\ <<"found", last.doc, "open">> \in last.ev
    /\ <<"ask_reload", last.doc, "yes">> \in last.ev
    /\ <<"loaded", last.doc, "reload">> \in last.ev
    /\ Cardinality(ValidSlots) = 1

\* C3: in every slot the buffer handle is non-null exactly when the document
\* is valid.
HandleIffValid ==
    \A i \in 1..Len(documents) : (documents[i].sci # 0) <=> documents[i].is_valid

\* C3: a close has just emptied a slot while another document stays open.
ClosedBesideOpen ==
    /\ last.op = "close"
    /\ last.ret
    /\ ~documents[last.doc].is_valid
    /\ documents[last.doc].sci = 0
    /\ \E j \in ValidSlots : documents[j].sci # 0

SavedEncodingFrame ==
    [][\A i \in 1..Len(documents) :
           (/\ documents[i].is_valid
            /\ documents'[i].is_valid
            /\ <<"created", i, "slot">> \notin last'.ev
            /\ documents'[i].saved_encoding # documents[i].saved_encoding)
               => \/ <<"loaded", i, "reload">> \in last'.ev
                  \/ <<"saved", i, "ok">> \in last'.ev]_vars

\* C5: a save has just moved the snapshot to a BOM the document got since its
\* creation.
SnapshotMovedBySave ==
    /\ last.op = "save"
    /\ last.ret
    /\ documents[last.doc].is_valid
    /\ documents[last.doc].saved_encoding.has_bom
    /\ documents[last.doc].has_bom

\* C6: an open or reload that fails (stat, read, or encoding failure) returns
\* the error, allocates no slot and leaves every document, the one being
\* reloaded included, exactly as it was.
FailedLoadTouchesNothing ==
    [][(last'.op \in {"open", "reload"} /\ ~last'.ret)
           => /\ last'.why \in {"stat", "read", "forced", "detect"}
              /\ documents' = documents
              /\ notebook' = notebook
              /\ \A e \in last'.ev : e[1] \notin {"created", "loaded"}]_vars

\* C6: a reload of a document with an edit and a ledger entry has just failed.
ReloadFailedOnEdited ==
    /\ last.op = "reload"
    /\ ~last.ret
    /\ documents[last.doc].is_valid
    /\ documents[last.doc].undo_actions # <<>>
    /\ documents[last.doc].buf.text # ""

\* C7: a save that fails (conversion or I/O) returns false and leaves the
\* document's content, display path, real path, encoding, BOM, saved encoding,
\* mtime and changed flag as they were.
FailedSaveTouchesNothing ==
    [][(last'.op \in {"save", "save_as"} /\ ~last'.ret /\ last'.why \in {"conv", "io"})
           => LET d == documents[last'.doc]
                  e == documents'[last'.doc]
              IN /\ e.buf.text = d.buf.text
                 /\ e.file_name = d.file_name
                 /\ e.real_path = d.real_path
                 /\ e.encoding = d.encoding
                 /\ e.has_bom = d.has_bom
                 /\ e.saved_encoding = d.saved_encoding
                 /\ e.mtime = d.mtime
                 /\ e.changed = d.changed]_vars

\* C8: save(doc, force = false) on a document that is unchanged or readonly
\* returns false, writes nothing, normalises nothing and changes no field.
UnforcedSaveSkips ==
    [][(/\ last'.op = "save"
        /\ ~last'.flag
        /\ \/ ~documents[last'.doc].changed
           \/ documents[last'.doc].readonly)
           => /\ ~last'.ret
              /\ last'.ev = {}
              /\ disk' = disk
              /\ documents' = documents]_vars

\* C8: an unforced save has just been skipped on a named, writable document
\* with text that the strip preference would have normalised.
UnforcedSaveSkipped ==
    /\ last.op = "save"
    /\ ~last.flag
    /\ last.why = "noop"
    /\ documents[last.doc].file_name # NULL
    /\ ~documents[last.doc].changed
    /\ documents[last.doc].buf.text = " "

\* C9: close of a dirty document answered cancel returns false, leaves the
\* document as it was (valid, handle, paths, encoding, changed flag, ledger)
\* and emits no detach notification.
CancelledCloseKeeps ==
    [][(/\ last'.op = "close"
        /\ documents[last'.doc].changed
        /\ last'.arg = "cancel")
           => /\ ~last'.ret
              /\ documents' = documents
              /\ notebook' = notebook
              /\ \A e \in last'.ev : e[1] # "detach"]_vars

\* C9: the dialog of a dirty document with a ledger entry was just cancelled.
CloseCancelled ==
    /\ last.op = "close"
    /\ ~last.ret
    /\ <<"prompt", last.doc, "cancel">> \in last.ev
    /\ documents[last.doc].is_valid
    /\ documents[last.doc].changed
    /\ documents[last.doc].undo_actions # <<>>

EventsOf(ev, k) == {e \in ev : e[1] = k}

\* C11: when a close-all returns TRUE, the assertion of force_close_all() held
\* (no valid document was changed when the second pass started), every turn of
\* its loop removed a page (one page per document that was open), no slot is
\* valid and no page is left afterwards, and the second pass showed no dialog:
\* only documents changed before the call were asked, and, whatever the inputs,
\* the second pass run on the outcome of the first adds nothing but removals.
CloseAllClosesEverything ==
    [][(last'.op = "close_all" /\ last'.ret)
          => /\ EventsOf(last'.ev, "assert") = {}
             /\ EventsOf(last'.ev, "hang") = {}
             /\ EventsOf(last'.ev, "detach")
                    = {<<"detach", notebook[p], "closed">> : p \in 1..Len(notebook)}
             /\ \A i \in 1..Len(documents') : ~documents'[i].is_valid
             /\ notebook' = <<>>
             /\ \A e \in EventsOf(last'.ev, "prompt") : documents[e[2]].changed
             /\ \A in \in CloseAllInputs :
                    document_account_for_unsaved(W, in).ret
                        => /\ \A i \in 1..Len(documents) :
                                  LET d == document_account_for_unsaved(W, in).w.docs[i]
                                  IN d.is_valid => ~d.changed
                           /\ force_close_all(
                                  [document_account_for_unsaved(W, in).w EXCEPT !.ev = {}],
                                  in).ev
                                 \subseteq {<<"detach", i, "closed">> :
                                               i \in 1..Len(documents)}]_vars

\* C11: a close-all went through after a changed document was saved from its
\* dialog, and closed two documents.
CloseAllSavedAndClosed ==
    /\ last.op = "close_all"
    /\ last.ret
    /\ \E e \in last.ev : e[1] = "prompt" /\ e[3] = "save"
    /\ Cardinality(EventsOf(last.ev, "detach")) = 2

\* the single open document that document_create() replaces: untitled and
\* unchanged, it is closed before the slot is chosen
EmptyDocument ==
    IF /\ Len(notebook) = 1
       /\ documents[notebook[1]].file_name = NULL
       /\ ~documents[notebook[1]].changed
    THEN {notebook[1]}
    ELSE {}

\* the slots whose widget pointer is NULL when document_create() chooses
FreeSlots == {i \in 1..Len(documents) : documents[i].sci = 0} \cup EmptyDocument

\* C12: a call that creates a document takes a slot whose widget pointer is
\* NULL whenever there is one, and the array keeps its length; it appends a
\* slot at the end of the array only when there is none; the slot taken never
\* holds a valid document (the one document it may have held is the empty
\* document the call closed first).
CreateTakesFreeSlot ==
    [][\A n \in 1..Len(documents') :
          <<"created", n, "slot">> \in last'.ev
              => /\ IF FreeSlots # {}
                    THEN n \in FreeSlots /\ Len(documents') = Len(documents)
                    ELSE n = Len(documents) + 1 /\ Len(documents') = n
                 /\ (n <= Len(documents) /\ documents[n].is_valid)
                        => /\ n \in EmptyDocument
                           /\ <<"detach", n, "closed">> \in last'.ev]_vars

\* C12: a document was created in the slot of the empty document the call
\* closed, beside no other slot.
CreatedInFreedSlot ==
    /\ last.op \in {"new", "open"}
    /\ <<"detach", 1, "closed">> \in last.ev
    /\ <<"created", 1, "slot">> \in last.ev
    /\ Len(documents) = 1
    /\ documents[1].is_valid

\* C13: the slot array never gets shorter, and a call on one document leaves
\* every other valid document in its slot, exactly as it was; the exceptions
\* are the documents whose life the call ends: every document on a close-all,
\* and the empty document that document_create() closes first.
OtherSlotsStay ==
    [][/\ Len(documents') >= Len(documents)
       /\ \A i \in 1..Len(documents) :
              (/\ documents[i].is_valid
               /\ i # last'.doc
               /\ last'.op # "close_all"
               /\ ~(i \in EmptyDocument /\ <<"detach", i, "closed">> \in last'.ev))
                  => documents'[i] = documents[i]
       /\ \A i \in 1..Len(documents) :
              (documents[i].is_valid /\ documents'[i].is_valid)
                  => /\ documents'[i].sci = documents[i].sci
                     /\ \E p \in 1..Len(notebook') : notebook'[p] = i]_vars

\* C13: a second document was created beside a named, edited one, which is
\* still in slot 1.
CreatedBesideEdited ==
    /\ last.op \in {"new", "open"}
    /\ last.doc = 2
    /\ <<"created", 2, "slot">> \in last.ev
    /\ documents[1].is_valid
    /\ documents[1].changed
    /\ documents[1].buf.text # ""

\* the ledger of slot i holds one buffer edit and, above it, one BOM toggle,
\* and nothing waits to be redone
EditThenBom(i) ==
    /\ documents[i].is_valid
    /\ Len(documents[i].undo_actions) = 2
    /\ documents[i].undo_actions[1].type = UNDO_SCINTILLA
    /\ documents[i].undo_actions[2].type = UNDO_BOM
    /\ documents[i].redo_actions = <<>>

\* slot i after two undos
UndoneTwice(i) == document_undo(document_undo(W, i), i).docs[i]

\* slot i after two undos and two redos
RoundTrip(i) ==
    document_redo(document_redo(document_undo(document_undo(W, i), i), i), i).docs[i]

\* C14 as stated: for a document with one recorded buffer edit followed by one
\* BOM toggle, two undos and then two redos give back the changed flag, the
\* charset, the BOM flag and the text, the same two ledger entries and an empty
\* redo stack.
UndoRedoRoundTrip ==
    \A i \in 1..Len(documents) :
        EditThenBom(i)
            => /\ RoundTrip(i).changed = documents[i].changed
               /\ RoundTrip(i).encoding = documents[i].encoding
               /\ RoundTrip(i).has_bom = documents[i].has_bom
               /\ RoundTrip(i).buf.text = documents[i].buf.text
               /\ RoundTrip(i).undo_actions = documents[i].undo_actions
               /\ RoundTrip(i).redo_actions = <<>>

\* C14: for a document with one recorded buffer edit followed by one BOM
\* toggle, two undos and then two redos give back the charset, the BOM flag,
\* the text and the buffer's own history, the same two ledger entries and an
\* empty redo stack; the changed flag ends as the composite of
\* update_changed_state(), which is the flag of before the first undo whenever
\* that flag was the composite.
UndoRedoRestoresContent ==
    \A i \in 1..Len(documents) :
        EditThenBom(i)
            => /\ RoundTrip(i).changed = Composite(documents[i])
               /\ (documents[i].changed = Composite(documents[i]))
                      => RoundTrip(i).changed = documents[i].changed
               /\ RoundTrip(i).encoding = documents[i].encoding
               /\ RoundTrip(i).has_bom = documents[i].has_bom
               /\ RoundTrip(i).buf = documents[i].buf
               /\ RoundTrip(i).undo_actions = documents[i].undo_actions
               /\ RoundTrip(i).redo_actions = <<>>

\* C14: a document has been edited and has had its BOM toggled; two undos take
\* both changes back and two redos bring them again, changed flag included.
EditAndBomGoAndReturn ==
    \E i \in 1..Len(documents) :
        /\ EditThenBom(i)
        /\ UndoneTwice(i).buf.text # documents[i].buf.text
        /\ UndoneTwice(i).has_bom # documents[i].has_bom
        /\ Len(UndoneTwice(i).redo_actions) = 2
        /\ RoundTrip(i).buf.text = documents[i].buf.text
        /\ RoundTrip(i).has_bom = documents[i].has_bom
        /\ RoundTrip(i).changed = documents[i].changed

\* the text, BOM flag and charset of slot i other than the given kind stay
OthersStay(i, kind) ==
    \A k \in {UNDO_SCINTILLA, UNDO_BOM, UNDO_ENCODING} \ {kind} :
        ValueOf(documents'[i], k) = ValueOf(documents[i], k)

\* C15 as stated: whatever edits, BOM toggles, charset changes, undos and
\* redos came before, an undo on a document with changes in effect takes back
\* exactly the latest of them: the value that change replaced is back, the
\* other two of text, BOM flag and charset are as they were, and the
\* change before it is the next to be undone.
UndoRevertsLatest ==
    [][\A i \in 1..Len(documents) :
          (last'.op = "undo" /\ last'.doc = i /\ applied[i] # <<>>)
              => /\ ValueOf(documents'[i], Top(applied[i]).type) = Top(applied[i]).data
                 /\ OthersStay(i, Top(applied[i]).type)
                 /\ applied'[i] = Pop(applied[i])]_vars

\* the kind of ledger entry each recording call pushes
PushedBy ==
    [edit |-> UNDO_SCINTILLA, toggle_bom |-> UNDO_BOM, set_encoding |-> UNDO_ENCODING]

\* C16: a call that records a change through document_undo_add() (an edit of
\* the buffer, a BOM toggle, a charset change) puts exactly one entry, of its
\* kind, on top of the undo stack, leaves the document changed, and leaves the
\* redo stack as it was, entries and order.
UndoAddFrame ==
    [][\A i \in 1..Len(documents) :
          (last'.op \in DOMAIN PushedBy /\ last'.doc = i /\ ~documents[i].readonly)
              => /\ Len(documents'[i].undo_actions) = Len(documents[i].undo_actions) + 1
                 /\ Pop(documents'[i].undo_actions) = documents[i].undo_actions
                 /\ Top(documents'[i].undo_actions).type = PushedBy[last'.op]
                 /\ documents'[i].changed
                 /\ documents'[i].redo_actions = documents[i].redo_actions]_vars

\* C16: a BOM toggle was recorded while an undone change waited on the redo
\* stack, which is still there.
PushedBesideRedo ==
    \E i \in 1..Len(documents) :
        /\ last.op = "toggle_bom"
        /\ last.doc = i
        /\ documents[i].redo_actions # <<>>
        /\ documents[i].undo_actions # <<>>
        /\ Top(documents[i].undo_actions).type = UNDO_BOM


(* ---------- find and replace ------------------------------------------ *)
\* the direction the latest call searched in
WentBackwards == Backwards(search.arg.flags, search.arg.backwards)

\* the matches of the latest call's text anywhere in the text it was made on
AllHits ==
    Hits(search.arg.s.text, search.arg.find_text, search.arg.flags,
         0, Len(search.arg.s.text))

\* what a search of the whole text from the edge opposite to the direction
\* finds: the first match going forwards, the last going backwards
FromOppositeEdge ==
    IF AllHits = {} THEN -1
    ELSE IF WentBackwards THEN LastOf(AllHits) ELSE FirstOf(AllHits)

\* C17: a find call returns after at most two calls of document_find_text and
\* at most one wrap question; the second call, made after an accepted wrap,
\* searches the whole text from the opposite edge; and when it misses too the
\* call returns -1 with the caret where the selection started and the text as
\* it was.
FindWrapsAtMostOnce ==
    search.op = "find" =>
        /\ search.depth <= 2
        /\ search.asked <= 1
        /\ search.sci.text = search.arg.s.text
        /\ search.depth = 2 =>
            /\ search.arg.in.suppress_dialogs \/ search.arg.in.wrap
            /\ search.asked = 1 <=> ~search.arg.in.suppress_dialogs
            /\ search.ret = FromOppositeEdge
            /\ search.ret = -1 =>
                /\ search.sci.ss = search.arg.s.ss
                /\ search.sci.se = search.arg.s.ss

\* a find call on a selection away from the start wrapped on the user's yes
\* and missed again
FindWrappedAndMissed ==
    /\ search.op = "find"
    /\ search.depth = 2
    /\ search.asked = 1
    /\ search.ret = -1
    /\ search.arg.s.ss > 0
    /\ search.arg.s.se > search.arg.s.ss

\* the find that the latest replace call re-issued on its selection
ReissuedFind ==
    document_find_text(
        sci_goto_pos(search.arg.s,
                     IF WentBackwards THEN search.arg.s.se ELSE search.arg.s.ss),
        search.arg.find_text, search.arg.flags, search.arg.backwards,
        search.arg.in)

\* the re-issued find matched the selection, start and end
MatchIsSelection ==
    /\ ReissuedFind.ret # -1
    /\ ReissuedFind.s.ss = search.arg.s.ss
    /\ ReissuedFind.s.se = search.arg.s.se

\* C18: a replace call on a non-empty selection replaces only when the match
\* of the re-issued find is the selection itself, same start and same end, and
\* otherwise returns -1 with the text as it was; on an empty selection it
\* returns -1 with the text as it was.
ReplaceOnlyExactSelection ==
    search.op = "replace" =>
        IF search.arg.s.ss = search.arg.s.se
        THEN search.ret = -1 /\ search.sci.text = search.arg.s.text
        ELSE ~MatchIsSelection =>
                 search.ret = -1 /\ search.sci.text = search.arg.s.text

\* the window document_replace_range() has left to search: end minus the start
\* of the next search
Window == search.loop.end - search.loop.ttf.chrg.cpMin

\* the call of the example: "a" replaced by "" over "aaa" on [0, 3)
TripleA ==
    /\ search.op = "replace_range"
    /\ search.arg.s.text = <<"a", "a", "a">>
    /\ ~search.arg.s.ro
    /\ search.arg.find_text = <<"a">>
    /\ search.arg.flags = SCFIND_NONE
    /\ search.arg.replace_text = <<>>
    /\ search.arg.start = 0
    /\ search.arg.end = 3

\* C19: document_replace_range returns for every pattern, replacement and
\* window: every turn of the loop that does not leave it makes the window
\* strictly smaller, the window never falls below -1 and a running loop can
\* always take its next turn, so the turns are finitely many; with an empty
\* pattern the call returns 0 at once and the text is as it was; and "a"
\* replaced by "" over "aaa" on [0, 3) returns 3 and leaves the empty text.
ReplaceRangeTerminates ==
    [][/\ search.pc = "loop" /\ search'.pc = "loop" =>
              search'.loop.end - search'.loop.ttf.chrg.cpMin < Window
       /\ search'.pc = "loop" =>
              search'.loop.end - search'.loop.ttf.chrg.cpMin >= -1
       /\ search'.pc = "loop" =>
              ReplaceInRange(search'.sci, search'.loop).exit \in BOOLEAN
       /\ search'.op \in {"replace_range", "replace_all"}
              /\ search'.arg.find_text = <<>> =>
              /\ search'.pc = "idle"
              /\ search'.ret = 0
              /\ search'.sci.text = search'.arg.s.text
       /\ TripleA' /\ search'.pc = "idle" =>
              search'.ret = 3 /\ search'.sci.text = <<>>]_vars

\* a call replacing the zero-length matches of $ by a non-empty text has
\* returned after several replacements, the last search having started past
\* the end of the range
ZeroLengthReplaced ==
    /\ search.op = "replace_range"
    /\ search.pc = "idle"
    /\ search.arg.find_text = LineEnd
    /\ search.arg.flags = SCFIND_REGEXP
    /\ search.arg.replace_text # <<>>
    /\ search.ret >= 2
    /\ Window < 0

\* A replace-all written for reference: the text is read from left to right,
\* each occurrence of find met is replaced and reading goes on after it, so
\* that occurrences do not overlap and replaced text is not read again.
Counted(r, before, n) == [text |-> before \o r.text, count |-> r.count + n]

RECURSIVE LeftToRight(_, _, _)
LeftToRight(t, find, by) ==
    IF Len(t) < Len(find) THEN [text |-> t, count |-> 0]
    ELSE IF SubSeq(t, 1, Len(find)) = find
    THEN Counted(LeftToRight(SubSeq(t, Len(find) + 1, Len(t)), find, by), by, 1)
    ELSE Counted(LeftToRight(Tail(t), find, by), <<Head(t)>>, 0)

\* the latest call replaced a literal, non-empty text over the whole of a
\* writable text, and has returned
WholeTextReplaced ==
    /\ search.op \in {"replace_all", "replace_range"}
    /\ search.pc = "idle"
    /\ search.arg.find_text # <<>>
    /\ search.arg.flags = SCFIND_NONE
    /\ ~search.arg.s.ro
    /\ search.arg.start = 0
    /\ search.arg.end = Len(search.arg.s.text)

ByReference ==
    LeftToRight(search.arg.s.text, search.arg.find_text, search.arg.replace_text)

\* C20: replacing a non-empty literal text over the whole of a writable text
\* leaves the text, and returns the count, of the reference replace-all from
\* left to right without overlap and without reading replaced text again.
ReplaceAllAsReference ==
    WholeTextReplaced =>
        /\ search.sci.text = ByReference.text
        /\ search.ret = ByReference.count

\* "foo bar foo" with foo replaced by baz: two replacements, "baz bar baz"
FooBecameBaz ==
    /\ WholeTextReplaced
    /\ search.op = "replace_all"
    /\ search.arg.s.text = FooBarFoo
    /\ search.arg.find_text = <<"f", "o", "o">>
    /\ search.arg.replace_text = <<"b", "a", "z">>
    /\ search.ret = 2
    /\ search.sci.text =
           <<"b", "a", "z", " ", "b", "a", "r", " ", "b", "a", "z">>

\* where the first search of the latest find call started: past the selection
\* when there was one, at the caret otherwise
FirstAnchor ==
    IF search.arg.s.se - search.arg.s.ss > 0
    THEN IF WentBackwards THEN search.arg.s.ss ELSE search.arg.s.se
    ELSE search.arg.s.ss

\* the first search covered the whole text: it ran from the start to the end,
\* or backwards from the end to the start
WholeTextSearched ==
    FirstAnchor = IF WentBackwards THEN Len(search.arg.s.text) ELSE 0

\* the first search of the latest find call missed
FirstSearchMissed ==
    /\ search.op = "find"
    /\ search.arg.find_text # <<>>
    /\ search.ret = -1 \/ search.depth = 2

\* C29: when its search misses, a find call gives up without the wrap
\* question (asked or answered by suppress_dialogs) exactly when that search
\* covered the whole text.
GivesUpIffWholeTextSearched ==
    FirstSearchMissed =>
        (search.depth = 1 /\ search.asked = 0 <=> WholeTextSearched)

\* the window document_replace_range() reports: the end it was given, moved
\* by what the replacements added to the text
MovedEnd == search.arg.end + Len(search.sci.text) - Len(search.arg.s.text)

\* C30: document_replace_range reports -1 as the new end of the range exactly
\* when it replaced nothing, and otherwise the end it was given plus, for
\* every replacement made, the length of the replacement minus the length of
\* the match.
NewEndFollowsReplacements ==
    search.op = "replace_range" /\ search.pc = "idle" =>
        /\ search.loop.new_range_end = -1 <=> search.ret = 0
        /\ search.ret > 0 => search.loop.new_range_end = MovedEnd

(* ---------- undo and redo: the changed flag --------------------------- *)
\* C28: when document_undo or document_redo returns, whether it found its
\* stack empty and passed the call to the buffer, or took back or re-applied
\* a buffer edit, a BOM toggle or a charset change, the document's changed
\* flag is (buffer modified) or (BOM differs from the saved BOM) or (charset
\* differs from the saved charset).
UndoRedoRecomputeChanged ==
    [][last'.op \in {"undo", "redo"} =>
           documents'[last'.doc].changed = Composite(documents'[last'.doc])]_vars

\* an undo found both stacks empty on a document whose file is gone, and left
\* the document unchanged
FallbackUndoRecomputed ==
    /\ last.op = "undo"
    /\ documents[last.doc].undo_actions = <<>>
    /\ documents[last.doc].redo_actions = <<>>
    /\ ~disk.exists
    /\ ~documents[last.doc].changed

(* ---------- disk check: a newer file ---------------------------------- *)
\* what a forced disk check of slot i would do now
CheckedAgain(i, in) == document_check_disk_status(W, i, TRUE, in)

\* C22: when document_check_disk_status finds the file's modification time
\* later than the recorded one (neither lying in the future), it returns
\* TRUE and the recorded time is then the file's, whether the user reloaded
\* or declined; a forced check that follows at once, the file untouched,
\* returns FALSE and asks nothing.
NewerMtimeAdopted ==
    last.op = "check_disk" /\ last.why = "newer" =>
        /\ last.ret = TRUE
        /\ documents[last.doc].mtime = disk.mtime
        /\ \A in \in DiskInputs :
               /\ CheckedAgain(last.doc, in).ret = FALSE
               /\ CheckedAgain(last.doc, in).w.ev = {}

\* the user declined to reload a file that another program had rewritten
ReloadDeclined ==
    /\ last.op = "check_disk"
    /\ last.ret = TRUE
    /\ <<"ask_reload", last.doc, "no">> \in last.ev
    /\ disk.mtime > 0
    /\ documents[last.doc].mtime = disk.mtime

(* ---------- close: the freed slot ------------------------------------- *)
\* C27: after document_remove_page has gone through, the document's slot is
\* invalid, its widget handle, display name, real path, encoding and filetype
\* are NULL, its BOM flag is FALSE and both ledger stacks are empty; the slot
\* is among the free ones, so a create that follows takes it or a lower one.
ClosedSlotIsFree ==
    last.op = "close" /\ last.ret = TRUE =>
        /\ ~documents[last.doc].is_valid
        /\ documents[last.doc].sci = 0
        /\ documents[last.doc].file_name = NULL
        /\ documents[last.doc].real_path = NULL
        /\ documents[last.doc].encoding = NULL
        /\ documents[last.doc].file_type = NULL
        /\ ~documents[last.doc].has_bom
        /\ documents[last.doc].undo_actions = <<>>
        /\ documents[last.doc].redo_actions = <<>>
        /\ document_get_new_idx(W) \in 1..last.doc
        /\ document_create(W, NULL, In0).ret \in 1..last.doc

\* an edited document was closed, its changes discarded, and the next create
\* would take its slot
EditedSlotReusable ==
    /\ last.op = "close"
    /\ last.ret = TRUE
    /\ <<"prompt", last.doc, "discard">> \in last.ev
    /\ ~documents[last.doc].is_valid
    /\ document_create(W, NULL, In0).ret = last.doc

(* ---------- create: the validity flag comes last ---------------------- *)
CreateSteps ==
    {"create_new_sci", "treeviews_openfiles_add", "notebook_new_tab",
     "ui_document_buttons_update"}

\* C26: document_create sets is_valid as its last step: when the widget is
\* created, when the sidebar, the notebook and the toolbar are told of the
\* document, the slot being built is not valid and no lookup of the registry
\* (by widget, by name, by notebook page) returns it; it is valid when the
\* call returns.
CreateMarksValidLast ==
    \A i \in 1..Len(documents) :
        <<"created", i, "slot">> \in last.ev =>
            /\ \A who \in CreateSteps : /\ <<"hidden", i, who>> \in last.ev
                                        /\ <<"exposed", i, who>> \notin last.ev
            /\ documents[i].is_valid

\* a file was opened into a slot that had been closed before: the notebook
\* took the page of a document not yet valid, and the document is valid now
ReusedSlotBuiltHidden ==
    /\ last.op = "open"
    /\ <<"created", 1, "slot">> \in last.ev
    /\ <<"detach", 1, "closed">> \in last.ev
    /\ <<"hidden", 1, "notebook_new_tab">> \in last.ev
    /\ documents[1].is_valid
    /\ document_get_from_page(W, Len(notebook)) = 1

(* ---------- opening files in a batch ---------------------------------- *)
\* the documents the batch opened from a file and that are valid at its end
OpenedInBatch == {i \in 1..Len(documents) :
                     <<"loaded", i, "open">> \in last.ev /\ documents[i].is_valid}

\* C21: document_colourise_new restyles every document that was opened
\* between document_delay_colourise and itself and is valid at the end,
\* whether the type keywords changed or not, also when the document sits in
\* a slot that was freed and taken again during the batch.
BatchRestylesOpened ==
    last.op = "open_files" =>
        \A i \in OpenedInBatch : <<"colourise", i, "batch">> \in last.ev

\* a batch opened a file into a new slot and restyled it
NewSlotRestyled ==
    /\ last.op = "open_files"
    /\ \E i \in OpenedInBatch : /\ <<"colourise", i, "batch">> \in last.ev
                                /\ <<"detach", i, "closed">> \notin last.ev

\* a batch opened a file into the slot of the empty document it had removed
ReusedSlotNotRestyled ==
    /\ last.op = "open_files"
    /\ \E i \in OpenedInBatch : /\ <<"colourise", i, "batch">> \notin last.ev
                                /\ <<"detach", i, "closed">> \in last.ev

(* ---------- indentation detection ------------------------------------- *)
RECURSIVE SplitLines(_)
\* the lines of a text, without their line ends
SplitLines(t) ==
    IF \A k \in 1..Len(t) : t[k] # EOL THEN <<t>>
    ELSE LET n == CHOOSE k \in 1..Len(t) :
                      t[k] = EOL /\ \A j \in 1..(k - 1) : t[j] # EOL
         IN <<SubSeq(t, 1, n - 1)>> \o SplitLines(SubSeq(t, n + 1, Len(t)))

\* how many lines of the widget's text begin with the characters of prefix
LinesWith(prefix) ==
    Cardinality({k \in 1..Len(SplitLines(search.sci.text)) :
                    /\ Len(SplitLines(search.sci.text)[k]) >= Len(prefix)
                    /\ SubSeq(SplitLines(search.sci.text)[k], 1, Len(prefix)) = prefix})

TabLines == LinesWith(<<TAB>>)
SpaceLines == LinesWith(<<SPACE, SPACE>>)

\* C24: with detection on and a filetype other than Make, over the number of
\* lines that start with a tab and the number that start with two spaces:
\* the default is kept when both are zero; with tabs as default the result
\* is spaces exactly when spaces > 2 * tabs; with spaces as default it is
\* tabs exactly when tabs > 2 * spaces.  A Make document always gets tabs.
IndentationHysteresis ==
    last.op = "set_indentation" =>
        /\ last.arg = "Make" => last.ret = TRUE
        /\ last.why = "detect" =>
               /\ TabLines = 0 /\ SpaceLines = 0 => last.ret = last.flag
               /\ last.flag => (~last.ret <=> SpaceLines > 2 * TabLines)
               /\ ~last.flag => (last.ret <=> TabLines > 2 * SpaceLines)
               /\ last.ret # last.flag =>
                      IF last.flag THEN SpaceLines > 2 * TabLines
                      ELSE TabLines > 2 * SpaceLines

\* three lines of blanks against one of tabs turned a tab default into spaces
ThreeToOneSwitched ==
    /\ last.op = "set_indentation"
    /\ last.why = "detect"
    /\ last.flag
    /\ ~last.ret
    /\ TabLines = 1
    /\ SpaceLines = 3

(* ---------- load: files cut short by a NUL ---------------------------- *)
\* the file on the disk holds a NUL, is not empty, and starts with a UTF-8
\* or UTF-7 byte-order mark or with none
TruncationDetected ==
    /\ strlen(disk.body) # Len(disk.body)
    /\ Len(disk.body) # 0
    /\ ScanBom(disk.body, Len(disk.body)).enc \in {"UTF-8", "UTF-7", NULL}

\* a save that is not forced leaves the disk as it is
PlainSaveWritesNothing(i) ==
    /\ SaveFileData(W, i, FALSE, In0).ret = FALSE
    /\ SaveFileData(W, i, FALSE, In0).w.fs = disk
    /\ SaveFileData(W, i, FALSE, In0).w.ev = {}

IsText(cps) ==
    /\ Decoded(cps)
    /\ \A k \in 1..Len(cps) : cps[k] # 0 /\ (cps[k] = 65279 => k = 1)

\* the bytes are text in UTF-8, UTF-16LE, UTF-16BE or Latin-1, with or
\* without a byte-order mark
SupportedText(bytes) ==
    \E charset \in {"UTF-8", "UTF-16LE", "UTF-16BE", "ISO-8859-1"} :
        IsText(DecodeCharset(bytes, charset))

\* C25: a file whose bytes are text in UTF-8, UTF-16LE, UTF-16BE or Latin-1,
\* with or without a byte-order mark, comes back byte for byte when the
\* document it was opened into is saved with the charset and the BOM flag
\* that were detected.
LoadSaveRoundTrip ==
    [][last'.op = "save" /\ last'.flag /\ SupportedText(disk.body) =>
           last'.ret = TRUE /\ disk'.body = disk.body]_vars

(* ---------- read-only documents and the changed flag ------------------ *)
\* C36: the changed flag excludes the read-only flag: no valid document is
\* both read-only and changed.
ChangedExcludesReadonly ==
    \A i \in 1..Len(documents) :
        documents[i].is_valid => ~(documents[i].readonly /\ documents[i].changed)

(* ---------- the ledger and the buffer's own history ------------------- *)
\* how many entries of a ledger stack stand for a buffer edit
BufferMarkers(stack) ==
    Cardinality({k \in 1..Len(stack) : stack[k].type = UNDO_SCINTILLA})

\* C37: the ledger stays in step with the buffer's own history: the undo
\* stack holds as many buffer-edit markers as the buffer can undo steps, and
\* the redo stack as many as the buffer can redo, after any sequence of
\* edits, BOM and charset changes, undo and redo.
LedgerMatchesBuffer ==
    \A i \in 1..Len(documents) :
        documents[i].is_valid =>
            /\ BufferMarkers(documents[i].undo_actions) = Len(documents[i].buf.undo)
            /\ BufferMarkers(documents[i].redo_actions) = Len(documents[i].buf.redo)

(* ---------- create and the lone empty document ------------------------ *)
\* the valid documents after a step
ValidAfter == {i \in 1..Len(documents') : documents'[i].is_valid}

\* exactly one document is open, and it is untitled and unchanged
LoneEmpty ==
    /\ Cardinality(ValidSlots) = 1
    /\ \A i \in ValidSlots :
           documents[i].file_name = NULL /\ ~documents[i].changed

\* the call that has just returned asked the user something
Prompted(ev) == \E e \in ev : e[1] = "prompt"

\* the statement of C39 as it stands: create, run while one untitled and
\* unchanged document is open, closes it without a prompt and builds the new
\* document in that document's slot, one document being valid afterwards; in
\* every other case one more document is valid afterwards.
CreateReusesItsSlot ==
    [][\A i \in 1..Len(documents') :
          <<"created", i, "slot">> \in last'.ev =>
              IF LoneEmpty
              THEN /\ ~Prompted(last'.ev)
                   /\ i \in ValidSlots
                   /\ Cardinality(ValidAfter) = 1
              ELSE Cardinality(ValidAfter) =
                       Cardinality(ValidSlots) + 1]_vars

\* C39: create, run while one untitled and unchanged document is open, closes
\* it without a prompt and builds the new document in the lowest slot that is
\* free once that document is closed (its own slot or a lower one), one
\* document being valid afterwards; in every other case one more document is
\* valid afterwards.
CreateReplacesLoneEmpty ==
    [][\A i \in 1..Len(documents') :
          <<"created", i, "slot">> \in last'.ev =>
              IF LoneEmpty
              THEN /\ ~Prompted(last'.ev)
                   /\ \E j \in ValidSlots :
                          /\ <<"detach", j, "closed">> \in last'.ev
                          /\ i <= j
                          /\ \A k \in 1..(i - 1) : documents[k].sci # 0
                   /\ ValidAfter = {i}
              ELSE Cardinality(ValidAfter) =
                       Cardinality(ValidSlots) + 1]_vars

\* the lone empty document stood in slot 2 with slot 1 free: it was closed
\* unasked and the new document was built in slot 1
LoneEmptyReplacedLower ==
    /\ last.op = "new"
    /\ <<"detach", 2, "closed">> \in last.ev
    /\ <<"created", 1, "slot">> \in last.ev
    /\ ~Prompted(last.ev)
    /\ ValidSlots = {1}

(* ---------- charset detection and the byte-order mark ----------------- *)
\* the mark the file on the disk starts with, and its bytes converted from
\* the charset the mark announces
MarkOnDisk == ScanBom(disk.body, Len(disk.body))
MarkConverted == ConvertToUtf8(disk.body, Len(disk.body), MarkOnDisk.enc)

\* the file's mark announces a charset other than UTF-8 and its bytes do not
\* convert from that charset
MarkMisleads ==
    /\ disk.body # <<>>
    /\ MarkOnDisk.enc \notin {NULL, "UTF-8"}
    /\ ~MarkConverted.ok

\* the file has just been opened into document 1 with this charset, no BOM
OpenedAs(enc) ==
    /\ last.ret
    /\ Len(documents) = 1
    /\ documents[1].is_valid
    /\ documents[1].encoding = enc
    /\ ~documents[1].has_bom

ReloadClearsLedgerKeepsMode ==
    [][\A i \in 1..Len(documents') :
          <<"loaded", i, "reload">> \in last'.ev =>
              /\ documents'[i].undo_actions = <<>>
              /\ documents'[i].redo_actions = <<>>
              /\ ~documents'[i].changed
              /\ documents'[i].use_tabs = documents[i].use_tabs]_vars

\* the file was rewritten with an indented line and reloaded: the document
\* has the new text, an empty ledger, and still indents with tabs
ReloadedIndentedStillTabs ==
    /\ last.op = "reload"
    /\ last.ret
    /\ <<"loaded", 1, "reload">> \in last.ev
    /\ documents[1].buf.text = IndentedText
    /\ documents[1].use_tabs
    /\ documents[1].undo_actions = <<>> /\ documents[1].redo_actions = <<>>
    /\ ~documents[1].changed

(* ---------- document_replace_range: the text outside the range -------- *)
\* the text before the start of the range is what it was when the call was made
PrefixKept ==
    SubSeq(search.sci.text, 1, search.arg.start)
        = SubSeq(search.arg.s.text, 1, search.arg.start)

\* the text that followed the end of the range ends the text now
SuffixKept ==
    /\ Len(search.sci.text) >= Len(search.arg.s.text) - search.arg.end
    /\ SubSeq(search.sci.text,
              Len(search.sci.text) - (Len(search.arg.s.text) - search.arg.end) + 1,
              Len(search.sci.text))
           = SubSeq(search.arg.s.text, search.arg.end + 1, Len(search.arg.s.text))

\* the match the next turn of the loop finds ends beyond the end of the range
Straddles ==
    /\ sci_find_text(search.sci, search.loop.flags, search.loop.ttf).pos # -1
    /\ sci_find_text(search.sci, search.loop.flags, search.loop.ttf).pos
           + FindLen(sci_find_text(search.sci, search.loop.flags, search.loop.ttf))
           > search.loop.end

\* C31: document_replace_range changes no text outside its range: at every
\* turn of the loop and when it returns, the text before the start given is
\* unchanged and the text that followed the end given still ends the text,
\* moved by what the replacements added or took; a match that ends beyond the
\* end of the range is not replaced, the loop is left.
ReplaceRangeStaysInRange ==
    [][search'.op = "replace_range" =>
          /\ PrefixKept'
          /\ SuffixKept'
          /\ search.pc = "loop" /\ Straddles =>
                 search'.sci.text = search.sci.text /\ search'.pc = "idle"]_vars

\* a call on a range with text before and after it has returned, having
\* replaced something
ReplacedInsideOnly ==
    /\ search.op = "replace_range"
    /\ search.pc = "idle"
    /\ search.ret > 0
    /\ search.arg.start > 0
    /\ search.arg.end < Len(search.arg.s.text)
    /\ search.sci.text # search.arg.s.text
    /\ PrefixKept /\ SuffixKept

(* ---------- document_replace_sel: what the user is told --------------- *)
\* C32: every call of document_replace_sel tells the status bar a summary
\* before it returns, with an empty selection and with no replacement made
\* as well, and beeps whenever it made no replacement.
ReplaceSelAlwaysReports ==
    search.op = "replace_sel" =>
        /\ \E e \in last.ev : e[1] = "summary" /\ e[3] = search.ret
        /\ search.ret = 0 => <<"beep", 0, "">> \in last.ev

(* ---------- replacing in a read-only document ------------------------- *)
BulkCalls == {"replace_range", "replace_all", "replace_sel"}

\* C40: on a read-only document document_replace_range,
\* document_replace_all and document_replace_sel replace nothing: the call
\* has returned, the count is 0 (the end of the range is reported as -1,
\* document_replace_all and the summary say nothing was replaced), the text
\* is what it was, and no undo action is left open.
ReadonlyReplacesNothing ==
    search.op \in BulkCalls /\ search.arg.s.ro =>
        /\ search.pc = "idle"
        /\ search.ret = 0
        /\ search.loop.new_range_end = -1
        /\ search.loop.undo = 0
        /\ search.sci.text = search.arg.s.text
        /\ search.op = "replace_sel" =>
               ~last.ret /\ <<"undo_depth", 0, 0>> \in last.ev

\* a rectangular selection over two lines of a read-only document, and a
\* pattern that occurs in it: nothing was replaced, the user was told so
ReadonlyRectangleUntouched ==
    /\ search.op = "replace_sel"
    /\ search.arg.s.ro
    /\ last.arg = SC_SEL_RECTANGLE
    /\ sci_get_lines_selected(search.arg.s) > 1
    /\ search.arg.find_text = <<"a">>
    /\ search.arg.s.text = <<"a", EOL, "a">>
    /\ search.sci.text = search.arg.s.text
    /\ <<"summary", 0, 0>> \in last.ev
    /\ <<"beep", 0, "">> \in last.ev

(* ---------- the search of the toolbar ---------------------------------- *)
Occurs(t, text) == \E p \in 0..Len(t) : MatchLen(t, text, SCFIND_NONE, p, Len(t)) >= 0

BarLiteral ==
    /\ search.op = "search_bar_find"
    /\ search.arg.flags = SCFIND_NONE
    /\ search.arg.find_text # <<>>

Active(b) == b.delay_colourise /\ b.doc_indexes.array

\* C33: batches do not nest.  document_delay_colourise while the flag is set
\* leaves the flag and the array of indexes as they were,
\* document_colourise_new while no batch is active changes nothing and
\* restyles nothing, and the flag is set exactly when the array exists, before
\* and after every call.
BatchesDoNotNest ==
    [][/\ batch.delay_colourise <=> batch.doc_indexes.array
       /\ batch'.delay_colourise <=> batch'.doc_indexes.array
       /\ last'.op = "delay_colourise" =>
            IF Active(batch) THEN batch' = batch /\ ~last'.ret
            ELSE /\ last'.ret
                 /\ batch' = [delay_colourise |-> TRUE,
                              doc_indexes |-> [array |-> TRUE,
                                               data |-> ValidSlots]]
       /\ last'.op = "delay_colourise" =>
            documents' = documents /\ notebook' = notebook /\ last'.ev = {}
       /\ last'.op = "colourise_new" =>
            IF Active(batch) THEN batch' = NoBatch /\ last'.ret
            ELSE /\ batch' = batch
                 /\ documents' = documents
                 /\ notebook' = notebook
                 /\ last'.ev = {}
                 /\ ~last'.ret]_vars

\* document_delay_colourise has been refused while the array held indexes
\* that are no longer those of the valid documents
NestedBeginRefused ==
    /\ last.op = "delay_colourise"
    /\ ~last.ret
    /\ Active(batch)
    /\ batch.doc_indexes.data # ValidSlots
=============================================================================
